---- MODULE Spec2Model ----
(***************************************************************************)
(* State-transition core of the node: the per-transaction processing of   *)
(* pkg/core/transaction.go (processTXInput, processInputs, processTXData,  *)
(* processClaimTX) applied to a block cache layered over the persistent    *)
(* store.                                                                  *)
(*                                                                         *)
(* A DAO layer is a record                                                 *)
(*   coins    : tx hash -> UnspentCoin (Height, States[]: flags + output)  *)
(*   accounts : script hash -> Account (Balances per asset, Unclaimed)     *)
(*   assets   : asset id -> Asset (Amount, Available)                      *)
(*   hist     : history of the chain this layer describes (which applied   *)
(*              transactions referenced which outputs, amounts created     *)
(*              and destroyed); kept with the layer so that a dropped      *)
(*              block cache drops its history too.                         *)
(***************************************************************************)
EXTENDS Integers, Sequences, FiniteSets, Bags, TLC

\* ------------------------------------------------------------------ bounds

\* Number of transactions a run adds to the chain it starts from.
MaxTx == 2
\* Largest amount of a single transaction output.
MaxAmount == 2
\* Inputs, outputs and claims of one transaction, taken together.
MaxTxSize == 2
\* Invocation transactions a run applies.
MaxInvocations == 2
\* Instructions of an invocation script.
MaxScript == 2
\* Largest configured free-gas limit and largest gas of a transaction.
MaxFreeGasLimit == 1
MaxTxGas == 1
\* Assets a run registers, largest total amount of an asset, largest amount
\* one transaction issues of an asset, and the cap on Available.
MaxAssets == 2
MaxAssetAmount == 2
MaxIssue == 2
MaxAvailable == 4
\* The VM's limits, scaled down: live items on all stacks, bits of an
\* integer's magnitude; and the instructions of a loaded program.
MaxStackSize == 2
MaxBigIntegerSizeBits == 3
MaxProg == 3
\* Times a program is loaded into one VM.
MaxRuns == 2
\* Largest gas limit set on a VM.
MaxGasLimit == 2
\* Elements of an array or struct and entries of a map that is serialized.
MaxElems == 2
\* Compound items alive at a time in a VM that runs instructions on them.
MaxRefs == 4
\* Instructions such a VM executes.
MaxItemSteps == 4
\* Its stack-size limit (MaxStackSize scaled to these programs).
MaxItemStackSize == 6
\* The VM's limit on the elements of an array or struct and the entries of a
\* map, scaled down.
MaxArraySize == 3

\* ---------------------------------------------------------------- universe

GenesisHash == 0
\* A hash no transaction of the chain ever has (hashes 1 .. MaxTx + 1 are
\* handed out in order).
MissingHash == MaxTx + 2
Hashes == 0 .. MissingHash
\* Output positions of a transaction; PrevIndex is 0-based as in the code.
Indexes == 0 .. MaxTxSize - 1
ScriptHashes == {"A", "B"}
GoverningTokenID == "NEO"
UtilityTokenID == "GAS"
Assets == {GoverningTokenID, UtilityTokenID}
Amounts == 1 .. MaxAmount
TxTypes == {"Contract", "Issue", "Claim"}

Input(h, i) == [prevHash |-> h, prevIndex |-> i]
Output(a, v, s) == [asset |-> a, amount |-> v, scriptHash |-> s]


VARIABLES
    store,                \* the persistent store (bc.dao)
    cache,                \* the cachedDao of the block being applied
    inBlock,              \* a block is being applied
    blockTxs,             \* transactions of that block processed so far
    first,                \* hash of the first transaction the run adds
    height,               \* bc.BlockHeight()
    VerifyTransactions,   \* bc.config.VerifyTransactions ("strict" mode)
    lastErr,              \* error returned by the last block operation
    storage,              \* persistent store as seen by invocations
    blockCache,           \* cachedDao of the block whose invocations run
    invoking,             \* a block with invocation transactions is applied
    txCount,              \* invocation transactions applied so far
    FreeGasLimit,         \* bc.config.FreeGasLimit
    flat,                 \* one flat map holding the successful writes only
    assetStates,          \* asset id -> state.Asset of the dao
    issueErr,             \* error returned by the last Register or Issue
    vmState,              \* v.state: NONE, BREAK, HALT or FAULT
    prog,                 \* the loaded script, one opcode per instruction
    vmIp,                 \* position of the next instruction (1-based)
    estack,               \* evaluation stack, top last
    astack,               \* alt stack, top last
    breakPoints,          \* positions with a break point
    lastOp,               \* the operation that led to this state
    runs,                 \* times a program was loaded into the VM
    hasPriceGetter,       \* a price getter is set (v.getPrice # nil)
    vmGasLimit,           \* v.gasLimit, 0 when none is set
    gasConsumed,          \* v.gasConsumed
    serItem,              \* the item pushed before the serialize program
    serStack,             \* evaluation stack of the serialize program
    serIp,                \* the next syscall of the serialize program
    serFailed,            \* the serialize program has failed
    itemState,            \* v.state of the VM running on compound items
    itemEstack,           \* its evaluation stack: integers and references
    itemAstack,           \* its alt stack
    heap,                 \* the compound items the references point to
    vmSize,               \* v.size, the live item counter
    itemSteps,            \* instructions executed
    itemOp,               \* the instruction executed last
    copies,               \* structs that APPEND has put into an item
    faulty,               \* the validators that do not follow the protocol
    view,                 \* replica -> its view at the height
    phase,                \* replica -> its state in the (height, view)
    accepted,             \* replica -> block of the preparation it holds
    commit,               \* replica -> block it has sent a Commit for
    block,                \* replica -> block it has handed to the chain
    network,              \* the payloads that have reached an honest replica
    redelivered,          \* the last handler got a payload twice
    nodeBlockCount,       \* block count of the node the client talks to
    nodeValidators,       \* number of validators the node reports
    rpcPc,                \* the request CalculateValidUntilBlock waits for
    rpcBlockCount,        \* blockCount of the call in progress
    rpcCache,             \* c.cache: the validator count, once fetched
    getBlockCountCalled,  \* getblockcount requests the node has served
    getValidatorsCalled,  \* getvalidators requests the node has served
    validUntilBlock,      \* result of the last call
    rpcErr,               \* the last call returned an error
    rpcCalls,             \* calls of CalculateValidUntilBlock so far
    atCall,               \* the counters and the cache when the call began
    ctlState,             \* v.state of the VM running the control-flow tests
    istack,               \* v.istack: the contexts, the current one last
    ctlEstack,            \* the evaluation stack the contexts share
    ctlAstack,            \* the alt stack
    getScript,            \* v.getScript: the scripts APPCALL can load
    ctlTest,              \* the test that loaded the VM
    ctlOp,                \* the opcode executed last
    timestamp,            \* p.timestamp of the prepareRequest
    tsArg,                \* the value SetTimestamp was called with last
    tsRet,                \* the value Timestamp returned last
    prOp                  \* the calls made last on the prepareRequest

chainVars ==
    <<store, cache, inBlock, blockTxs, first, height, VerifyTransactions, lastErr>>

invokeVars == <<storage, blockCache, invoking, txCount, FreeGasLimit, flat>>

assetVars == <<assetStates, issueErr>>

vmVars ==
    <<vmState, prog, vmIp, estack, astack, breakPoints, lastOp, runs,
      hasPriceGetter, vmGasLimit, gasConsumed>>

serVars == <<serItem, serStack, serIp, serFailed>>

\* The sub-models of the chain, of invocations, of assets and of the VM.
coreVars == <<chainVars, invokeVars, assetVars, vmVars>>

itemVars ==
    <<itemState, itemEstack, itemAstack, heap, vmSize, itemSteps, itemOp,
      copies>>

dbftVars ==
    <<faulty, view, phase, accepted, commit, block, network, redelivered>>

rpcVars ==
    <<nodeBlockCount, nodeValidators, rpcPc, rpcBlockCount, rpcCache,
      getBlockCountCalled, getValidatorsCalled, validUntilBlock, rpcErr,
      rpcCalls, atCall>>

ctlVars ==
    <<ctlState, istack, ctlEstack, ctlAstack, getScript, ctlTest, ctlOp>>

\* The sub-models added last.
prVars == <<timestamp, tsArg, tsRet, prOp>>

lateVars == <<ctlVars, prVars>>

\* The other sub-models.
extraVars == <<serVars, itemVars, dbftVars, rpcVars, lateVars>>

vars == <<coreVars, extraVars>>

NoErr == ""

\* ------------------------------------------------------------- state shapes

\* state.UnspentCoin of a hash without transaction.
NoCoin == [exists |-> FALSE, height |-> 0, states |-> <<>>]

\* One element of UnspentCoin.States: the flag bits CoinSpent and CoinClaimed,
\* SpendHeight and the Output itself.
OutputState(o) ==
    [spent |-> FALSE, claimed |-> FALSE, spendHeight |-> 0,
     asset |-> o.asset, amount |-> o.amount, scriptHash |-> o.scriptHash]

\* state.NewUnspentCoin(height, tx)
NewUnspentCoin(h, outs) ==
    [exists |-> TRUE, height |-> h,
     states |-> [k \in 1 .. Len(outs) |-> OutputState(outs[k])]]

\* An account: Balances maps an asset to its list of UnspentBalance (a key
\* that is absent from the Go map reads as the empty list), Unclaimed is the
\* list of UnclaimedBalance.
NewAccount ==
    [exists |-> FALSE, balances |-> [a \in Assets |-> <<>>], unclaimed |-> <<>>]

UnspentBalance(h, i, v) == [tx |-> h, index |-> i, value |-> v]

ZeroRefs == [h \in Hashes |-> [i \in Indexes |-> 0]]
ZeroAmounts == [a \in Assets |-> 0]

\* ------------------------------------------------- account and coin helpers

\* Position (1-based) of the first entry of list l for output (h, i), 0 when
\* there is none: the search loops of processTXInput and of
\* UnclaimedBalances.Remove.
RECURSIVE FindFrom(_, _, _, _)
FindFrom(l, h, i, k) ==
    IF k > Len(l) THEN 0
    ELSE IF l[k].tx = h /\ l[k].index = i THEN k
    ELSE FindFrom(l, h, i, k + 1)

FindEntry(l, h, i) == FindFrom(l, h, i, 1)

\* l with entry k overwritten by the last entry and the list cut by one.
SwapRemove(l, k) ==
    LET last == Len(l)
        moved == IF last > k THEN [l EXCEPT ![k] = l[last]] ELSE l
    IN  SubSeq(moved, 1, last - 1)

\* UnclaimedBalances.Put: appends the entry.
UnclaimedPut(u, b) == Append(u, b)

\* UnclaimedBalances.Remove(tx, index): drops the first entry for (tx, index),
\* moving the last entry into its place; changed tells whether one was found.
UnclaimedRemove(u, h, i) ==
    LET k == FindEntry(u, h, i)
    IN  IF k = 0 THEN [changed |-> FALSE, unclaimed |-> u]
        ELSE [changed |-> TRUE, unclaimed |-> SwapRemove(u, k)]

\* cachedDao.GetAccountStateOrNew / PutAccountState
GetAccountStateOrNew(accounts, s) == accounts[s]
PutAccountState(accounts, s, acc) ==
    [accounts EXCEPT ![s] = [acc EXCEPT !.exists = TRUE]]

\* ----------------------------------------------------------- processTXInput

\* Mutant: the list is cut without moving the last entry into the place of
\* the spent one.
RemoveBalance_NoMove(bal, input) ==
    IF Len(bal) <= 1 THEN <<>> ELSE SubSeq(bal, 1, Len(bal) - 1)

\* The balance list of the spent asset after the removal of lines 50-68.
RemoveBalance(bal, input) ==
    LET balancesLen == Len(bal)
    IN  IF balancesLen <= 1 THEN <<>>
        ELSE LET index == FindEntry(bal, input.prevHash, input.prevIndex)
             IN  IF index >= 1 THEN SwapRemove(bal, index) ELSE bal

\* Mutant: the double-spend test never fires.
IsSpent_Never(st) == FALSE

\* The double-spend test of line 23.
IsSpent(st) == st.spent

\* The flag and spend-height update of lines 26-27.
MarkSpent(st, blockIndex) ==
    [st EXCEPT !.spent = TRUE, !.spendHeight = blockIndex]

\* Mutant: Start is taken from the spending block.
NewUnclaimed_StartAtSpend(input, unspent, blockIndex, prevTXOutput) ==
    [tx |-> input.prevHash, index |-> input.prevIndex,
     start |-> blockIndex, end |-> blockIndex,
     value |-> prevTXOutput.amount]

\* The UnclaimedBalance of lines 35-41.
NewUnclaimed(input, unspent, blockIndex, prevTXOutput) ==
    [tx |-> input.prevHash, index |-> input.prevIndex,
     start |-> unspent.height, end |-> blockIndex,
     value |-> prevTXOutput.amount]

\* processTXInput(input, unspent, block, cache): the error, the UnspentCoin
\* (mutated in place by the code) and the accounts of the cache.
\* processTXWithValidatorsSubtract only touches validator vote counts and
\* does nothing for an account without votes; no account of the model votes.
processTXInput(input, unspent, blockIndex, accounts) ==
    IF Len(unspent.states) <= input.prevIndex
    THEN [err |-> "bad input", unspent |-> unspent, accounts |-> accounts]
    ELSE IF IsSpent(unspent.states[input.prevIndex + 1])
    THEN [err |-> "double spend", unspent |-> unspent, accounts |-> accounts]
    ELSE
      LET k == input.prevIndex + 1
          unspent1 == [unspent EXCEPT !.states[k] = MarkSpent(@, blockIndex)]
          prevTXOutput == unspent1.states[k]
          account == GetAccountStateOrNew(accounts, prevTXOutput.scriptHash)
          account1 ==
              IF prevTXOutput.asset = GoverningTokenID
              THEN [account EXCEPT !.unclaimed =
                      UnclaimedPut(@, NewUnclaimed(input, unspent1, blockIndex,
                                                   prevTXOutput))]
              ELSE account
          account2 ==
              [account1 EXCEPT !.balances[prevTXOutput.asset] =
                                   RemoveBalance(@, input)]
      IN  [err |-> NoErr, unspent |-> unspent1,
           accounts |-> PutAccountState(accounts, prevTXOutput.scriptHash,
                                        account2)]

\* ------------------------------------------------------------ processInputs

\* transaction.GroupInputsByPrevHash: the inputs grouped by PrevHash, groups
\* in ascending hash order, each group in the transaction's order.
RECURSIVE GroupsFrom(_, _)
GroupsFrom(ins, h) ==
    IF h > MissingHash THEN <<>>
    ELSE LET g == SelectSeq(ins, LAMBDA x : x.prevHash = h)
         IN  (IF g = <<>> THEN <<>> ELSE <<g>>) \o GroupsFrom(ins, h + 1)

GroupInputsByPrevHash(ins) == GroupsFrom(ins, 0)

\* The inner loop of processInputs (lines 80-84) from input k of a group.
RECURSIVE processGroupFrom(_, _, _, _, _)
processGroupFrom(inputs, k, unspent, blockIndex, accounts) ==
    IF k > Len(inputs)
    THEN [err |-> NoErr, unspent |-> unspent, accounts |-> accounts]
    ELSE LET r == processTXInput(inputs[k], unspent, blockIndex, accounts)
         IN  IF r.err # NoErr THEN r
             ELSE processGroupFrom(inputs, k + 1, r.unspent, blockIndex,
                                   r.accounts)

\* The outer loop of processInputs (lines 74-88) from group g on. On an error
\* the layer is returned as the completed groups left it.
RECURSIVE processGroupsFrom(_, _, _, _)
processGroupsFrom(groups, g, blockIndex, dao) ==
    IF g > Len(groups) THEN [err |-> NoErr, dao |-> dao]
    ELSE
      LET inputs == groups[g]
          prevHash == inputs[1].prevHash
          unspent == dao.coins[prevHash]
      IN  IF ~unspent.exists THEN [err |-> "key not found", dao |-> dao]
          ELSE
            LET r == processGroupFrom(inputs, 1, unspent, blockIndex,
                                      dao.accounts)
            IN  IF r.err # NoErr
                THEN [err |-> r.err,
                      dao |-> [dao EXCEPT !.accounts = r.accounts]]
                ELSE processGroupsFrom(groups, g + 1, blockIndex,
                        [dao EXCEPT !.coins[prevHash] = r.unspent,
                                    !.accounts = r.accounts])

processInputs(ins, blockIndex, dao) ==
    processGroupsFrom(GroupInputsByPrevHash(ins), 1, blockIndex, dao)

\* ----------------------------------------------------------- processClaimTX

\* Mutant: the state is assigned CoinClaimed instead of or-ed with it.
MarkClaimed_Assign(st) == [st EXCEPT !.claimed = TRUE, !.spent = FALSE]

\* The flag update of line 181.
MarkClaimed(st) == [st EXCEPT !.claimed = TRUE]

\* Mutant: a reference to an already claimed output passes the check.
ClaimError_NoDoubleClaim(input, dao) ==
    LET scs == dao.coins[input.prevHash]
    IN  IF ~scs.exists THEN "key not found"
        ELSE IF Len(scs.states) <= input.prevIndex THEN "invalid claim index"
        ELSE NoErr

\* The check of lines 152-159 for one claim reference.
ClaimError(input, dao) ==
    LET scs == dao.coins[input.prevHash]
    IN  IF ~scs.exists THEN "key not found"
        ELSE IF Len(scs.states) <= input.prevIndex THEN "invalid claim index"
        ELSE IF scs.states[input.prevIndex + 1].claimed THEN "double claim"
        ELSE NoErr

\* Mutant: the strict mode is not looked at.
ClaimFailure_NeverStrict(err, strict) == NoErr

\* What the loop returns for a reference that failed the check (lines
\* 169-173): the error in strict mode, otherwise nil after leaving the loop.
ClaimFailure(err, strict) == IF strict THEN err ELSE NoErr

\* Mutant: the account is not put back after the removal.
AccountAfterClaim_NotPut(accounts, owner, acc, rm) == accounts

\* The accounts after Unclaimed.Remove (lines 186-194): the account is put
\* back only when an entry was removed.
AccountAfterClaim(accounts, owner, acc, rm) ==
    IF ~rm.changed THEN accounts
    ELSE PutAccountState(accounts, owner, [acc EXCEPT !.unclaimed = rm.unclaimed])

\* Lines 176-194 for one reference that passed the check.
ClaimOne(input, dao) ==
    LET k == input.prevIndex + 1
        scs == dao.coins[input.prevHash]
        owner == scs.states[k].scriptHash
        acc == dao.accounts[owner]
    IN  IF ~acc.exists THEN [err |-> "key not found", dao |-> dao]
        ELSE
          LET scs1 == [scs EXCEPT !.states[k] = MarkClaimed(@)]
              dao1 == [dao EXCEPT !.coins[input.prevHash] = scs1]
              rm == UnclaimedRemove(acc.unclaimed, input.prevHash,
                                    input.prevIndex)
          IN  [err |-> NoErr,
               dao |-> [dao1 EXCEPT !.accounts =
                          AccountAfterClaim(@, owner, acc, rm)]]

\* The loop of processClaimTX (lines 151-196) from claim k on; strict is
\* bc.config.VerifyTransactions. Without strict mode the first bad reference
\* leaves the loop (the break of line 173) and nil is returned.
RECURSIVE processClaimsFrom(_, _, _, _)
processClaimsFrom(claims, k, dao, strict) ==
    IF k > Len(claims) THEN [err |-> NoErr, dao |-> dao]
    ELSE
      LET err == ClaimError(claims[k], dao)
      IN  IF err # NoErr
          THEN [err |-> ClaimFailure(err, strict), dao |-> dao]
          ELSE LET r == ClaimOne(claims[k], dao)
               IN  IF r.err # NoErr THEN r
                   ELSE processClaimsFrom(claims, k + 1, r.dao, strict)

processClaimTX(claims, dao, strict) == processClaimsFrom(claims, 1, dao, strict)

\* ------------------------------------------------------------ processTXData

RECURSIVE SumSeq(_, _)
SumSeq(l, k) == IF k > Len(l) THEN 0 ELSE l[k] + SumSeq(l, k + 1)

\* Amount of asset a among the outputs the inputs reference.
InputAmount(ins, a, dao) ==
    SumSeq([k \in 1 .. Len(ins) |->
              LET st == dao.coins[ins[k].prevHash].states[ins[k].prevIndex + 1]
              IN  IF st.asset = a THEN st.amount ELSE 0], 1)

\* Amount of asset a among the outputs of the transaction.
OutputAmount(outs, a) ==
    SumSeq([k \in 1 .. Len(outs) |->
              IF outs[k].asset = a THEN outs[k].amount ELSE 0], 1)

\* bc.GetTransactionResults(tx): per asset, referenced inputs minus outputs.
GetTransactionResults(tx, dao) ==
    [a \in Assets |-> InputAmount(tx.inputs, a, dao) - OutputAmount(tx.outputs, a)]

\* Mutant: the result is added instead of subtracted.
IssueAvailable_Added(available, amount) == available + amount

\* Line 113: asset.Available -= res.Amount.
IssueAvailable(available, amount) == available - amount

\* The IssueTX case (lines 106-118): every asset with a negative result has
\* that result subtracted from Available.
RECURSIVE issueFrom(_, _, _)
issueFrom(todo, results, dao) ==
    IF todo = {} THEN [err |-> NoErr, dao |-> dao]
    ELSE
      LET a == CHOOSE x \in todo : TRUE
      IN  IF results[a] >= 0 THEN issueFrom(todo \ {a}, results, dao)
          ELSE IF ~dao.assets[a].exists
          THEN [err |-> "issue failed", dao |-> dao]
          ELSE issueFrom(todo \ {a}, results,
                 [dao EXCEPT !.assets[a].available =
                                 IssueAvailable(@, results[a])])

\* processTXData for the transaction types of the model; a ContractTX has no
\* type-specific part.
processTXData(tx, dao, strict) ==
    CASE tx.type = "Issue" -> issueFrom(Assets, GetTransactionResults(tx, dao), dao)
      [] tx.type = "Claim" -> processClaimTX(tx.claims, dao, strict)
      [] OTHER -> [err |-> NoErr, dao |-> dao]

\* ----------------------------------------------- outputs and new coin state

\* Crediting of outputs k.. of transaction `hash`: an UnspentBalance is
\* appended to the recipient's list of the output's asset.
RECURSIVE processOutputsFrom(_, _, _, _)
processOutputsFrom(hash, outs, k, accounts) ==
    IF k > Len(outs) THEN accounts
    ELSE
      LET o == outs[k]
          account == GetAccountStateOrNew(accounts, o.scriptHash)
          account1 == [account EXCEPT !.balances[o.asset] =
                         Append(@, UnspentBalance(hash, k - 1, o.amount))]
      IN  processOutputsFrom(hash, outs, k + 1,
                             PutAccountState(accounts, o.scriptHash, account1))

processOutputs(hash, outs, dao) ==
    [dao EXCEPT !.accounts = processOutputsFrom(hash, outs, 1, @)]

\* ------------------------------------------------------------------ history

RefsOf(l) == {l[k] : k \in 1 .. Len(l)}

Max(x, y) == IF x >= y THEN x ELSE y

\* The history after transaction tx: spentRefs (claimRefs) counts, per output,
\* the applied transactions whose inputs (claims) name it; minted is what
\* transactions other than IssueTX paid out above their inputs, burned what
\* any transaction paid out below its inputs. dao resolves the inputs.
RecordTx(tx, dao, hist) ==
    LET net == [a \in Assets |->
                  OutputAmount(tx.outputs, a) - InputAmount(tx.inputs, a, dao)]
    IN  [spentRefs |-> [h \in Hashes |-> [i \in Indexes |->
                          hist.spentRefs[h][i]
                          + (IF Input(h, i) \in RefsOf(tx.inputs) THEN 1 ELSE 0)]],
         claimRefs |-> [h \in Hashes |-> [i \in Indexes |->
                          hist.claimRefs[h][i]
                          + (IF Input(h, i) \in RefsOf(tx.claims) THEN 1 ELSE 0)]],
         minted |-> [a \in Assets |->
                       hist.minted[a]
                       + (IF tx.type = "Issue" THEN 0 ELSE Max(net[a], 0))],
         burned |-> [a \in Assets |-> hist.burned[a] + Max(0 - net[a], 0)]]

\* ------------------------------------------------------------- verification

\* The validity predicate of a transaction against the state the block
\* starts from, as far as inputs, amounts and claims go: no duplicate input,
\* every input an existing unspent output, no asset paid out above the inputs
\* except by IssueTX (any asset) and ClaimTX (the utility token), and claims
\* that name distinct spent, unclaimed outputs of the governing token.
InputUnspent(input, dao) ==
    LET c == dao.coins[input.prevHash]
    IN  /\ c.exists
        /\ input.prevIndex < Len(c.states)
        /\ ~c.states[input.prevIndex + 1].spent

ClaimValid(input, dao) ==
    LET c == dao.coins[input.prevHash]
    IN  /\ c.exists
        /\ input.prevIndex < Len(c.states)
        /\ c.states[input.prevIndex + 1].spent
        /\ ~c.states[input.prevIndex + 1].claimed
        /\ c.states[input.prevIndex + 1].asset = GoverningTokenID

verifyTx(tx, dao) ==
    /\ Cardinality(RefsOf(tx.inputs)) = Len(tx.inputs)
    /\ \A k \in 1 .. Len(tx.inputs) : InputUnspent(tx.inputs[k], dao)
    /\ \A a \in Assets :
          \/ tx.type = "Issue"
          \/ tx.type = "Claim" /\ a = UtilityTokenID
          \/ OutputAmount(tx.outputs, a) <= InputAmount(tx.inputs, a, dao)
    /\ tx.type = "Claim" =>
          /\ tx.claims # <<>>
          /\ Cardinality(RefsOf(tx.claims)) = Len(tx.claims)
          /\ \A k \in 1 .. Len(tx.claims) : ClaimValid(tx.claims[k], dao)

\* ------------------------------------------------------------- transactions

\* Hash of the next transaction of the layer: hashes are handed out in order.
NextHash(dao) ==
    IF \A h \in Hashes \ {MissingHash} : dao.coins[h].exists THEN MissingHash
    ELSE CHOOSE h \in Hashes \ {MissingHash} :
            /\ ~dao.coins[h].exists
            /\ \A g \in 0 .. h - 1 : dao.coins[g].exists

\* References a new transaction can make: to any output position of a
\* transaction of the layer, or to a transaction that does not exist.
Refs(dao) ==
    {Input(h, i) : h \in {g \in Hashes : dao.coins[g].exists} \cup {MissingHash},
                   i \in Indexes}

Outputs == {Output(a, v, s) : a \in Assets, v \in Amounts, s \in ScriptHashes}

Tx(t, ins, outs, cl) ==
    [type |-> t, inputs |-> ins, outputs |-> outs, claims |-> cl]

\* The shapes of a transaction: its type and the lengths of its inputs,
\* outputs and claims, MaxTxSize entries in all; a ClaimTX, and only a
\* ClaimTX, carries claims.
Shapes ==
    {sh \in TxTypes \X (0 .. MaxTxSize) \X (0 .. MaxTxSize) \X (0 .. MaxTxSize) :
        /\ sh[2] + sh[3] + sh[4] <= MaxTxSize
        /\ (sh[1] = "Claim") <=> (sh[4] >= 1)}

TxUniverse(dao) ==
    LET R == Refs(dao)
    IN  UNION {{Tx(sh[1], ins, outs, cl) :
                  ins \in [1 .. sh[2] -> R],
                  outs \in [1 .. sh[3] -> Outputs],
                  cl \in [1 .. sh[4] -> R]} : sh \in Shapes}

\* One transaction of a block against the block's cache: the new
\* UnspentCoin, then inputs, the type-specific part and the outputs.
applyTx(tx, blockIndex, dao, strict) ==
    LET hash == NextHash(dao)
        r1 == processInputs(tx.inputs, blockIndex, dao)
        r2 == IF r1.err # NoErr THEN r1 ELSE processTXData(tx, r1.dao, strict)
    IN  IF r2.err # NoErr THEN r2
        ELSE [err |-> NoErr,
              dao |-> [processOutputs(hash, tx.outputs, r2.dao) EXCEPT
                         !.coins[hash] = NewUnspentCoin(blockIndex, tx.outputs),
                         !.hist = RecordTx(tx, dao, dao.hist)]]

\* ---------------------------------------------------- invocation: storage

\* Storage keys and values a script can write; Unset is "no item" in the
\* persistent store and "key not held by this layer" in a cache layer.
Keys == {"k1", "k2"}
Vals == 1 .. 2
Unset == 0
EmptyLayer == [k \in Keys |-> Unset]
LayerValues == [Keys -> Vals \cup {Unset}]

\* A read through layers, innermost first: the value of the first layer that
\* holds the key.
RECURSIVE ReadFrom(_, _, _)
ReadFrom(layers, i, k) ==
    IF i > Len(layers) THEN Unset
    ELSE IF layers[i][k] # Unset THEN layers[i][k]
    ELSE ReadFrom(layers, i + 1, k)

\* Mutant: the outermost layer that holds the key wins.
Read_OutermostWins(layers, k) ==
    ReadFrom([i \in 1 .. Len(layers) |-> layers[Len(layers) + 1 - i]], 1, k)

Read(layers, k) == ReadFrom(layers, 1, k)

\* dao.Persist(): the writes of the inner layer go to the layer below.
Persist(inner, outer) ==
    [k \in Keys |-> IF inner[k] # Unset THEN inner[k] ELSE outer[k]]

\* ------------------------------------------------- invocation: stack items

\* Byte strings are tuples of bytes.
TransferBytes == <<116, 114, 97, 110, 115, 102, 101, 114>>
MintBytes == <<109, 105, 110, 116>>
FromBytes == <<65>>
ToBytes == <<66>>

\* A stack item: its type and, for that type, its value (the fields of the
\* other types hold their zero values).
IntItem(n) ==
    [t |-> "Integer", int |-> n, bytes |-> <<>>, bool |-> FALSE, items |-> <<>>,
     pairs |-> {}]
BytesItem(b) ==
    [t |-> "ByteArray", int |-> 0, bytes |-> b, bool |-> FALSE, items |-> <<>>,
     pairs |-> {}]
BoolItem(b) ==
    [t |-> "Boolean", int |-> 0, bytes |-> <<>>, bool |-> b, items |-> <<>>,
     pairs |-> {}]
NewStructItem(l) ==
    [t |-> "Struct", int |-> 0, bytes |-> <<>>, bool |-> FALSE, items |-> l,
     pairs |-> {}]
\* A map item holds its entries without order: a set of key and value.
NewMapItem(entries) ==
    [t |-> "Map", int |-> 0, bytes |-> <<>>, bool |-> FALSE, items |-> <<>>,
     pairs |-> entries]
ArrayItem(l) ==
    [t |-> "Array", int |-> 0, bytes |-> <<>>, bool |-> FALSE, items |-> l,
     pairs |-> {}]

\* emit.BytesToInt on a little-endian byte string of non-negative value.
RECURSIVE BytesToIntFrom(_, _)
BytesToIntFrom(bs, i) ==
    IF i > Len(bs) THEN 0 ELSE bs[i] + 256 * BytesToIntFrom(bs, i + 1)

BytesToInt(bs) == BytesToIntFrom(bs, 1)

\* The notification items of the script universe: the canonical transfer
\* with an integer and with a byte-string amount, and one item for each way
\* of missing the shape.
TransferNote(amount) ==
    ArrayItem(<<BytesItem(TransferBytes), BytesItem(FromBytes),
                BytesItem(ToBytes), amount>>)

NoteItems ==
    {TransferNote(IntItem(1)),
     TransferNote(BytesItem(<<2>>)),
     TransferNote(BoolItem(TRUE)),
     IntItem(1),
     ArrayItem(<<BytesItem(TransferBytes), BytesItem(FromBytes), BytesItem(ToBytes)>>),
     ArrayItem(<<BytesItem(MintBytes), BytesItem(FromBytes), BytesItem(ToBytes), IntItem(1)>>),
     ArrayItem(<<IntItem(1), BytesItem(FromBytes), BytesItem(ToBytes), IntItem(1)>>),
     ArrayItem(<<BytesItem(TransferBytes), IntItem(1), BytesItem(ToBytes), IntItem(1)>>),
     ArrayItem(<<BytesItem(TransferBytes), BytesItem(FromBytes), IntItem(1), IntItem(1)>>)}

\* ---------------------------------------------------- invocation: scripts

\* The instructions of an invocation script, by their effect outside the
\* evaluation stack: a storage write, a storage read, a notification, a
\* failing instruction.
Instructions ==
    {[op |-> "PUT", key |-> k, val |-> x] : k \in Keys, x \in Vals}
    \cup {[op |-> "GET", key |-> k] : k \in Keys}
    \cup {[op |-> "NOTIFY", item |-> n] : n \in NoteItems}
    \cup {[op |-> "THROW"]}

Scripts == UNION {[1 .. n -> Instructions] : n \in 0 .. MaxScript}

InvocationTX(script, gas) == [script |-> script, gas |-> gas]

InvocationTXs == {InvocationTX(s, g) : s \in Scripts, g \in 0 .. MaxTxGas}

\* getPrice: storage writes and notifications are charged.
getPrice(ins) == IF ins.op \in {"PUT", "NOTIFY"} THEN 1 ELSE 0

\* ---------------------------------------------------------- invocation: VM

\* The VM of one invocation: state, gas counters, evaluation stack, the
\* interop context's dao layer and its notifications.
spawnVM(limit) ==
    [state |-> "NONE", gasConsumed |-> 0, gasLimit |-> limit,
     estack |-> <<>>, dao |-> EmptyLayer, notifications |-> <<>>]

\* The gas check of one instruction: a limit of zero is no limit.
GasExceeded(gas, limit) == limit > 0 /\ gas > limit

\* v.Run() from instruction ip on; below are the layers under the interop
\* context's dao.
RECURSIVE runFrom(_, _, _, _)
runFrom(script, ip, v, below) ==
    IF ip > Len(script) THEN [v EXCEPT !.state = "HALT"]
    ELSE
      LET ins == script[ip]
          gas == v.gasConsumed + getPrice(ins)
          w == [v EXCEPT !.gasConsumed = gas]
      IN  IF GasExceeded(gas, v.gasLimit) \/ ins.op = "THROW"
          THEN [w EXCEPT !.state = "FAULT"]
          ELSE runFrom(script, ip + 1,
                 CASE ins.op = "PUT" -> [w EXCEPT !.dao[ins.key] = ins.val]
                   [] ins.op = "GET" ->
                        [w EXCEPT !.estack =
                            Append(@, Read(<<w.dao>> \o below, ins.key))]
                   [] ins.op = "NOTIFY" ->
                        [w EXCEPT !.notifications = Append(@, ins.item)],
                 below)

HasFailed(v) == v.state = "FAULT"

\* ------------------------------------------------ processInvocationTX

\* Mutant: the limit is set whatever FreeGasLimit is.
GasLimit_Always(free, gas) == free + gas

\* Lines 205-207: the limit is set only for a positive FreeGasLimit; the
\* VM's own limit stays zero otherwise.
GasLimit(free, gas) == IF free > 0 THEN free + gas ELSE 0

\* Mutant: the name of the notification is not compared with "transfer".
IsTransfer_AnyName(note) ==
    /\ note.t = "Array"
    /\ Len(note.items) = 4
    /\ note.items[1].t = "ByteArray"
    /\ note.items[2].t = "ByteArray"
    /\ note.items[3].t = "ByteArray"
    /\ note.items[4].t \in {"Integer", "ByteArray"}

\* Lines 216-239: the notification is a 4-element array of the byte string
\* "transfer", two byte strings and an integer or byte-string amount.
IsTransfer(note) ==
    /\ note.t = "Array"
    /\ Len(note.items) = 4
    /\ note.items[1].t = "ByteArray"
    /\ note.items[1].bytes = TransferBytes
    /\ note.items[2].t = "ByteArray"
    /\ note.items[3].t = "ByteArray"
    /\ note.items[4].t \in {"Integer", "ByteArray"}

\* Lines 232-239: the amount itself, or emit.BytesToInt of its bytes.
TransferAmount(note) ==
    IF note.items[4].t = "Integer" THEN note.items[4].int
    ELSE BytesToInt(note.items[4].bytes)

\* processNEP5Transfer: the balance index of the sender goes down and that
\* of the receiver up by the amount.
processNEP5Transfer(nep5, from, to, amount) ==
    [nep5 EXCEPT ![from] = @ - amount, ![to] = nep5[to] + amount]

\* Lines 215-241: the loop over the notifications.
RECURSIVE processNotificationsFrom(_, _, _)
processNotificationsFrom(notes, i, nep5) ==
    IF i > Len(notes) THEN nep5
    ELSE processNotificationsFrom(notes, i + 1,
           IF IsTransfer(notes[i])
           THEN processNEP5Transfer(nep5, notes[i].items[2].bytes,
                                    notes[i].items[3].bytes,
                                    TransferAmount(notes[i]))
           ELSE nep5)

\* Lines 248-255.
AppExecResult(v) ==
    [trigger |-> "Application", vmState |-> v.state,
     gasConsumed |-> v.gasConsumed, stack |-> v.estack,
     events |-> v.notifications]

NoResult ==
    [trigger |-> "", vmState |-> "NONE", gasConsumed |-> 0,
     stack |-> <<>>, events |-> <<>>]

\* Mutant: the interop context's dao is persisted whatever the VM state.
PersistIfNotFailed_Always(v, kv) == Persist(v.dao, kv)

\* Lines 210-214, 242: what the run leaves in the block cache's storage.
PersistIfNotFailed(v, kv) == IF HasFailed(v) THEN kv ELSE Persist(v.dao, kv)

\* Lines 210, 215-241: the balance index after the run.
NotifyIfNotFailed(v, nep5) ==
    IF HasFailed(v) THEN nep5
    ELSE processNotificationsFrom(v.notifications, 1, nep5)

\* The VM after the script of t has run over the block cache and the store.
invocationVM(t, bcache, persistent, free) ==
    runFrom(t.script, 1, spawnVM(GasLimit(free, t.gas)),
            <<bcache.kv, persistent.kv>>)

\* processInvocationTX for transaction number tx: the error returned and
\* the block cache afterwards.
processInvocationTX(t, tx, bcache, persistent, free) ==
    LET v == invocationVM(t, bcache, persistent, free)
    IN  [err |-> NoErr,
         cache |-> [kv |-> PersistIfNotFailed(v, bcache.kv),
                    nep5 |-> NotifyIfNotFailed(v, bcache.nep5),
                    aers |-> [bcache.aers EXCEPT ![tx] = AppExecResult(v)]]]

\* The flat map after the script: its writes when it does not fail.
RECURSIVE flatRunFrom(_, _, _, _, _)
flatRunFrom(script, ip, m, gas, limit) ==
    IF ip > Len(script) THEN [failed |-> FALSE, map |-> m, reads |-> <<>>]
    ELSE
      LET ins == script[ip]
          g == gas + getPrice(ins)
      IN  IF GasExceeded(g, limit) \/ ins.op = "THROW"
          THEN [failed |-> TRUE, map |-> m, reads |-> <<>>]
          ELSE LET r == flatRunFrom(script, ip + 1,
                          IF ins.op = "PUT" THEN [m EXCEPT ![ins.key] = ins.val]
                          ELSE m, g, limit)
               IN  IF ins.op = "GET"
                   THEN [r EXCEPT !.reads = <<m[ins.key]>> \o @]
                   ELSE r

flatApply(t, m, free) ==
    LET r == flatRunFrom(t.script, 1, m, 0, GasLimit(free, t.gas))
    IN  IF r.failed THEN m ELSE r.map

\* The persistent side and a block cache over it.
Accounts == {FromBytes, ToBytes}
EmptyStorage ==
    [kv |-> EmptyLayer, nep5 |-> [a \in Accounts |-> 0],
     aers |-> [n \in 1 .. MaxInvocations |-> NoResult]]

NewBlockCache(persistent) == [persistent EXCEPT !.kv = EmptyLayer]

InvokeIdle ==
    /\ storage = EmptyStorage
    /\ blockCache = EmptyStorage
    /\ invoking = FALSE
    /\ txCount = 0
    /\ FreeGasLimit = 0
    /\ flat = EmptyLayer

\* ----------------------------------------------------------------------- VM

\* Integers of magnitude below 2^MaxBigIntegerSizeBits fit.
BigIntLimit == 2 ^ MaxBigIntegerSizeBits

Abs(x) == IF x < 0 THEN 0 - x ELSE x

\* Mutant: a magnitude of exactly 2^MaxBigIntegerSizeBits still fits.
checkBigIntSize_Inclusive(x) == Abs(x) <= BigIntLimit

checkBigIntSize(x) == Abs(x) < BigIntLimit

\* Largest shift of SHL and SHR.
maxSHLArg == MaxBigIntegerSizeBits

\* big.Int Quo and Rem: division truncated toward zero.
Quo(a, b) ==
    IF (a < 0) = (b < 0) THEN Abs(a) \div Abs(b) ELSE 0 - (Abs(a) \div Abs(b))

Rem(a, b) == a - b * Quo(a, b)

\* big.Int Rsh: arithmetic shift, rounding down.
Rsh(a, n) == a \div (2 ^ n)

Opcodes ==
    {"PUSH1", "DROP", "TOALTSTACK", "DUPFROMALTSTACK",
     "ADD", "SUB", "MUL", "DIV", "MOD", "SHL", "SHR", "INC", "DEC"}

StackOpcodes == {"PUSH1", "DROP", "TOALTSTACK", "DUPFROMALTSTACK"}

ArithOpcodes == Opcodes \ {"DROP", "TOALTSTACK", "DUPFROMALTSTACK"}

Top(st) == st[Len(st)]
Pop(st) == SubSeq(st, 1, Len(st) - 1)
Pop2(st) == SubSeq(st, 1, Len(st) - 2)

\* Result of an instruction: ok is FALSE when the instruction faults.
Fault(es, as) == [ok |-> FALSE, es |-> es, as |-> as]
Done(es, as) == [ok |-> TRUE, es |-> es, as |-> as]

\* Push of an integer result, faulting when it does not fit.
PushChecked(es, as, x) ==
    IF checkBigIntSize(x) THEN Done(Append(es, x), as) ELSE Fault(es, as)

\* A two-operand instruction: a was pushed first, b last.
binary(op, es, as) ==
    IF Len(es) < 2 THEN Fault(es, as)
    ELSE
      LET b == Top(es)
          a == es[Len(es) - 1]
          rest == Pop2(es)
          bothFit == checkBigIntSize(a) /\ checkBigIntSize(b)
      IN  CASE op = "ADD" ->
                 IF bothFit THEN PushChecked(rest, as, a + b) ELSE Fault(es, as)
            [] op = "SUB" ->
                 IF bothFit THEN PushChecked(rest, as, a - b) ELSE Fault(es, as)
            [] op = "MUL" ->
                 IF bothFit THEN PushChecked(rest, as, a * b) ELSE Fault(es, as)
            [] op = "DIV" ->
                 IF bothFit /\ b # 0 THEN Done(Append(rest, Quo(a, b)), as)
                 ELSE Fault(es, as)
            [] op = "MOD" ->
                 IF bothFit /\ b # 0 THEN Done(Append(rest, Rem(a, b)), as)
                 ELSE Fault(es, as)
            [] op = "SHL" ->
                 IF b = 0 THEN Done(Append(rest, a), as)
                 ELSE IF b < 0 \/ b > maxSHLArg THEN Fault(es, as)
                 ELSE PushChecked(rest, as, a * (2 ^ b))
            [] op = "SHR" ->
                 IF b = 0 THEN Done(Append(rest, a), as)
                 ELSE IF b < 0 \/ b > maxSHLArg \/ ~checkBigIntSize(a)
                 THEN Fault(es, as)
                 ELSE Done(Append(rest, Rsh(a, b)), as)

\* v.execute: one instruction on the stacks.
execute(op, es, as) ==
    CASE op = "PUSH1" -> Done(Append(es, 1), as)
      [] op = "DROP" ->
           IF Len(es) < 1 THEN Fault(es, as) ELSE Done(Pop(es), as)
      [] op = "TOALTSTACK" ->
           IF Len(es) < 1 THEN Fault(es, as)
           ELSE Done(Pop(es), Append(as, Top(es)))
      [] op = "DUPFROMALTSTACK" ->
           IF Len(as) < 1 THEN Fault(es, as) ELSE Done(Append(es, Top(as)), as)
      [] op = "INC" ->
           IF Len(es) < 1 THEN Fault(es, as)
           ELSE PushChecked(Pop(es), as, Top(es) + 1)
      [] op = "DEC" ->
           IF Len(es) < 1 THEN Fault(es, as)
           ELSE PushChecked(Pop(es), as, Top(es) - 1)
      [] OTHER -> binary(op, es, as)

\* Live items on all stacks.
StackSize(es, as) == Len(es) + Len(as)

\* Mutant: one item more is let through.
SizeExceeded_OneMore(es, as) == StackSize(es, as) > MaxStackSize + 1

SizeExceeded(es, as) == StackSize(es, as) > MaxStackSize

\* v.Step: the instruction at position i of program p; past the last opcode
\* stands the RET that ends the program. The stack-size check follows the
\* instruction; a break point at the next position stops the run there.
step(p, i, es, as, breaks) ==
    IF i > Len(p)
    THEN [state |-> "HALT", ip |-> i, es |-> es, as |-> as]
    ELSE
      LET r == execute(p[i], es, as)
      IN  IF ~r.ok \/ SizeExceeded(r.es, r.as)
          THEN [state |-> "FAULT", ip |-> i, es |-> r.es, as |-> r.as]
          ELSE [state |-> IF i + 1 \in breaks THEN "BREAK" ELSE "NONE",
                ip |-> i + 1, es |-> r.es, as |-> r.as]

\* The price getter of the tests: a price per instruction.
vmPrice(op) ==
    CASE op = "PUSH1" -> 1
      [] op = "DUPFROMALTSTACK" -> 2
      [] OTHER -> 0

\* Price charged for the instruction at position i: nothing without a price
\* getter, nothing for the RET that ends the program.
charge(p, i, priced) == IF priced /\ i <= Len(p) THEN vmPrice(p[i]) ELSE 0

\* Mutant: gas equal to the limit is already too much.
gasStep_LimitExclusive(p, i, es, as, breaks, priced, limit, gas) ==
    LET g == gas + charge(p, i, priced)
        r == step(p, i, es, as, breaks)
    IN  IF limit > 0 /\ g >= limit
        THEN [state |-> "FAULT", ip |-> i, es |-> es, as |-> as, gas |-> g]
        ELSE [state |-> r.state, ip |-> r.ip, es |-> r.es, as |-> r.as,
              gas |-> g]

\* v.Step with gas: the price of the instruction is added first and the
\* instruction is not executed when the limit is exceeded.
gasStep(p, i, es, as, breaks, priced, limit, gas) ==
    LET g == gas + charge(p, i, priced)
        r == step(p, i, es, as, breaks)
    IN  IF GasExceeded(g, limit)
        THEN [state |-> "FAULT", ip |-> i, es |-> es, as |-> as, gas |-> g]
        ELSE [state |-> r.state, ip |-> r.ip, es |-> r.es, as |-> r.as,
              gas |-> g]

\* Integers a test puts on the evaluation stack before the run: small ones
\* and those around the limit.
BigInts ==
    {0 - BigIntLimit, 1 - BigIntLimit, 2 - BigIntLimit, 0 - 1, 0, 1, 2,
     BigIntLimit - 2, BigIntLimit - 1, BigIntLimit}

ProgramsOver(ops, n) == UNION {[1 .. k -> ops] : k \in 0 .. n}

\* What is loaded into a new VM: a program of stack instructions, with or
\* without a break point, on empty stacks; or a shorter program of
\* arithmetic instructions on a stack of up to two integers.
Loads ==
    {[prog |-> p, es |-> <<>>, breaks |-> b] :
        p \in ProgramsOver(StackOpcodes, MaxProg),
        b \in {{}} \cup {{k} : k \in 2 .. MaxProg}}
    \cup
    {[prog |-> p, es |-> e, breaks |-> {}] :
        p \in ProgramsOver(ArithOpcodes, MaxProg - 1),
        e \in UNION {[1 .. k -> BigInts] : k \in 0 .. 2}}

VMIdle ==
    /\ vmState = "NONE"
    /\ prog = <<>>
    /\ vmIp = 1
    /\ estack = <<>>
    /\ astack = <<>>
    /\ breakPoints = {}
    /\ lastOp = "New"
    /\ runs = 0
    /\ hasPriceGetter = FALSE
    /\ vmGasLimit = 0
    /\ gasConsumed = 0

\* ------------------------------------------------------------------ assets

\* Asset ids are the hashes of the RegisterTX that create them, handed out
\* in order.
AssetIDs == 1 .. MaxAssets

NoAsset == [exists |-> FALSE, amount |-> 0, available |-> 0]

\* Lines 96-105: the state.Asset a RegisterTX puts (ID is the key; Available
\* is not set and so zero).
RegisteredAsset(amount) == [exists |-> TRUE, amount |-> amount, available |-> 0]

\* Asset id of the next RegisterTX; MaxAssets + 1 when all are registered.
NextAsset(assets) ==
    IF \A a \in AssetIDs : assets[a].exists THEN MaxAssets + 1
    ELSE CHOOSE a \in AssetIDs :
            /\ ~assets[a].exists
            /\ \A b \in 1 .. a - 1 : assets[b].exists

\* The results of an IssueTX: per asset, inputs minus outputs (negative for
\* an issued asset).
IssueResults == [AssetIDs -> (0 - MaxIssue) .. 1]

\* The IssueTX case of processTXData against the assets of the cache.
processIssueTX(results, assets) ==
    LET r == issueFrom(AssetIDs, results, [assets |-> assets])
    IN  [err |-> r.err, assets |-> r.dao.assets]

AssetIdle ==
    /\ assetStates = [a \in AssetIDs |-> NoAsset]
    /\ issueErr = NoErr

ChainIdle ==
    /\ store = <<>>
    /\ cache = <<>>
    /\ inBlock = FALSE
    /\ blockTxs = 0
    /\ first = 0
    /\ height = 0
    /\ VerifyTransactions = FALSE
    /\ lastErr = NoErr

\* ----------------------------------------------------------- serialization

\* Type bytes of the serialized form.
ByteArrayT == 40
BooleanT == 32
IntegerT == 33
ArrayT == 64
StructT == 65
MapT == 72

\* Mutant: the sign byte of a positive integer with the top bit set is left
\* out.
IntToBytes_NoSignByte(n) ==
    IF n >= -128 /\ n <= 255 THEN <<n % 256>>
    ELSE <<n % 256, (n \div 256) % 256>>

\* emit.IntToBytes: little-endian two's complement of the least length, for
\* integers of up to two bytes.
IntToBytes(n) ==
    IF n >= -128 /\ n <= 127 THEN <<n % 256>>
    ELSE <<n % 256, (n \div 256) % 256>>

RECURSIVE Pow256(_)
Pow256(n) == IF n = 0 THEN 1 ELSE 256 * Pow256(n - 1)

\* emit.BytesToInt: little-endian two's complement, the empty string is 0.
BytesToBigInt(bs) ==
    IF Len(bs) = 0 THEN 0
    ELSE IF bs[Len(bs)] >= 128 THEN BytesToInt(bs) - Pow256(Len(bs))
    ELSE BytesToInt(bs)

\* A byte string with its length in front (lengths below 0xFD take a byte).
VarBytes(bs) == <<Len(bs)>> \o bs

RECURSIVE SerializeItem(_), SerializeItems(_, _), SerializeEntries(_)

\* SerializeItem: the byte strings an item can be serialized to, one for
\* each order in which the entries of its maps are written.
SerializeItem(x) ==
    CASE x.t = "ByteArray" -> {<<ByteArrayT>> \o VarBytes(x.bytes)}
      [] x.t = "Boolean" -> {<<BooleanT, IF x.bool THEN 1 ELSE 0>>}
      [] x.t = "Integer" -> {<<IntegerT>> \o VarBytes(IntToBytes(x.int))}
      [] x.t = "Array" ->
           {<<ArrayT, Len(x.items)>> \o b : b \in SerializeItems(x.items, 1)}
      [] x.t = "Struct" ->
           {<<StructT, Len(x.items)>> \o b : b \in SerializeItems(x.items, 1)}
      [] x.t = "Map" ->
           {<<MapT, Cardinality(x.pairs)>> \o b : b \in SerializeEntries(x.pairs)}

\* The elements from position i on, one after the other.
SerializeItems(l, i) ==
    IF i > Len(l) THEN {<<>>}
    ELSE {a \o b : a \in SerializeItem(l[i]), b \in SerializeItems(l, i + 1)}

\* The entries of a map, key then value, in any order.
SerializeEntries(entries) ==
    IF entries = {} THEN {<<>>}
    ELSE UNION {{k \o v \o b : k \in SerializeItem(e.key),
                               v \in SerializeItem(e.value),
                               b \in SerializeEntries(entries \ {e})} :
                e \in entries}

\* What reading an item gives: the item and the position after it, or an
\* error.
Decoded(x, next) == [ok |-> TRUE, item |-> x, items |-> <<>>, next |-> next]
DecodedList(l, next) ==
    [ok |-> TRUE, item |-> BoolItem(FALSE), items |-> l, next |-> next]
DecodeError ==
    [ok |-> FALSE, item |-> BoolItem(FALSE), items |-> <<>>, next |-> 0]

\* MapItem.Add: the value of a key already in the map is replaced.
MapAdd(entries, k, v) ==
    {e \in entries : e.key # k} \cup {[key |-> k, value |-> v]}

\* The map made of the first i items of l, keys and values in turn.
RECURSIVE EntriesOf(_, _)
EntriesOf(l, i) ==
    IF i < 2 THEN {}
    ELSE MapAdd(EntriesOf(l, i - 2), l[i - 1], l[i])

RECURSIVE DecodeBinaryStackItem(_, _), DecodeItems(_, _, _)

\* DecodeBinaryStackItem: the item that starts at position i of bs.
DecodeBinaryStackItem(bs, i) ==
    IF i > Len(bs) THEN DecodeError
    ELSE
      LET t == bs[i]
      IN  CASE t \in {ByteArrayT, IntegerT} ->
                 IF i + 1 > Len(bs) \/ i + 1 + bs[i + 1] > Len(bs)
                 THEN DecodeError
                 ELSE LET b == SubSeq(bs, i + 2, i + 1 + bs[i + 1])
                      IN  Decoded(IF t = ByteArrayT THEN BytesItem(b)
                                  ELSE IntItem(BytesToBigInt(b)),
                                  i + 2 + bs[i + 1])
            [] t = BooleanT ->
                 IF i + 1 > Len(bs) THEN DecodeError
                 ELSE Decoded(BoolItem(bs[i + 1] # 0), i + 2)
            [] t \in {ArrayT, StructT} ->
                 IF i + 1 > Len(bs) THEN DecodeError
                 ELSE LET r == DecodeItems(bs, i + 2, bs[i + 1])
                      IN  IF ~r.ok THEN DecodeError
                          ELSE Decoded(IF t = ArrayT THEN ArrayItem(r.items)
                                       ELSE NewStructItem(r.items), r.next)
            [] t = MapT ->
                 IF i + 1 > Len(bs) THEN DecodeError
                 ELSE LET r == DecodeItems(bs, i + 2, 2 * bs[i + 1])
                      IN  IF ~r.ok THEN DecodeError
                          ELSE Decoded(NewMapItem(
                                         EntriesOf(r.items, Len(r.items))),
                                       r.next)
            [] OTHER -> DecodeError

\* n items one after the other from position i on.
DecodeItems(bs, i, n) ==
    IF n = 0 THEN DecodedList(<<>>, i)
    ELSE LET r == DecodeBinaryStackItem(bs, i)
         IN  IF ~r.ok THEN DecodeError
             ELSE LET rest == DecodeItems(bs, r.next, n - 1)
                  IN  IF ~rest.ok THEN DecodeError
                      ELSE DecodedList(<<r.item>> \o rest.items, rest.next)

DeserializeItem(bs) == DecodeBinaryStackItem(bs, 1)

\* Items the tests serialize: booleans, integers of one and two bytes of
\* either sign, byte arrays.
SerInts == {0 - 129, 0 - 128, 0 - 1, 0, 1, 123, 127, 128, 255, 256}

SerPrimitives ==
    {BoolItem(b) : b \in BOOLEAN}
    \cup {IntItem(n) : n \in SerInts}
    \cup {BytesItem(<<>>), BytesItem(<<0>>), BytesItem(<<1, 2, 3>>)}

\* Keys and values of the maps.
SerKeys == {BoolItem(TRUE), IntItem(1), BytesItem(<<0>>)}
SerValues == {BytesItem(<<1, 2, 3>>), BoolItem(FALSE), IntItem(0 - 1)}

SerMaps ==
    {NewMapItem({[key |-> k, value |-> f[k]] : k \in K}) :
        <<K, f>> \in UNION {{<<K, f>> : f \in [K -> SerValues]} :
                            K \in {K \in SUBSET SerKeys :
                                     Cardinality(K) <= MaxElems}}}

\* Elements of arrays and structs: primitives and compound items.
SerElements ==
    {BoolItem(TRUE), IntItem(123), IntItem(128), BytesItem(<<1, 2, 3>>),
     NewMapItem({}), ArrayItem(<<>>), NewStructItem(<<IntItem(1)>>),
     NewMapItem({[key |-> BoolItem(TRUE), value |-> BytesItem(<<1, 2, 3>>)],
                 [key |-> BytesItem(<<0>>), value |-> BoolItem(FALSE)]})}

SerLists == UNION {[1 .. n -> SerElements] : n \in 0 .. MaxElems}

SerItems ==
    SerPrimitives \cup SerMaps
    \cup {ArrayItem(l) : l \in SerLists}
    \cup {NewStructItem(l) : l \in SerLists}

SerIdle ==
    /\ serItem = BoolItem(FALSE)
    /\ serStack = <<>>
    /\ serIp = 0
    /\ serFailed = FALSE

\* ----------------------------------------------------------- compound items

\* A value on a stack or inside a compound item: an integer or a reference
\* to a compound item.
IntV(n) == [k |-> "Int", v |-> n, bs |-> <<>>]
RefV(r) == [k |-> "Ref", v |-> r, bs |-> <<>>]

BoolV(b) == [k |-> "Bool", v |-> IF b THEN 1 ELSE 0, bs |-> <<>>]
BytesV(bs) == [k |-> "Bytes", v |-> 0, bs |-> bs]

\* An interop handle.
InteropV == [k |-> "Interop", v |-> 0, bs |-> <<>>]

\* A little-endian operand as an unsigned and as a signed number.
RECURSIVE Unsigned(_)
Unsigned(bs) == IF bs = <<>> THEN 0 ELSE Head(bs) + 256 * Unsigned(Tail(bs))

RECURSIVE Pow(_, _)
Pow(b, e) == IF e = 0 THEN 1 ELSE b * Pow(b, e - 1)

\* Two's complement: the last byte carries the sign.
Signed(bs) ==
    IF bs = <<>> THEN 0
    ELSE LET n == Len(bs)
             last == IF bs[n] >= 128 THEN bs[n] - 256 ELSE bs[n]
         IN  Unsigned(SubSeq(bs, 1, n - 1)) + Pow(256, n - 1) * last

\* Element.Bool and Element.BigInt of a primitive item.
ToBool(x) ==
    IF x.k = "Bytes" THEN \E i \in 1 .. Len(x.bs) : x.bs[i] # 0
    ELSE x.v # 0

ToInt(x) == IF x.k = "Bytes" THEN Signed(x.bs) ELSE x.v

RefIDs == 1 .. MaxRefs

\* A compound item: array and struct hold elements in order, a map holds
\* entries without order.
FreeObj == [t |-> "Free", elems |-> <<>>, entries |-> {}]
ArrayObj(l) == [t |-> "Array", elems |-> l, entries |-> {}]
StructObj(l) == [t |-> "Struct", elems |-> l, entries |-> {}]
MapObj(es) == [t |-> "Map", elems |-> <<>>, entries |-> es]
Entry(k, x) == [key |-> k, value |-> x]

EmptyHeap == [r \in RefIDs |-> FreeObj]

\* Positions of l that hold x.
Occurrences(l, x) == Cardinality({i \in 1 .. Len(l) : l[i] = x})

RECURSIVE SumOver1(_, _)
SumOver1(f, n) == IF n = 0 THEN 0 ELSE f[n] + SumOver1(f, n - 1)

\* References to item r held by the compound items.
HeldRefs(h, r) ==
    SumOver1([q \in RefIDs |->
                Occurrences(h[q].elems, RefV(r))
                + Cardinality({e \in h[q].entries : e.value = RefV(r)})],
             MaxRefs)

\* References to item r held by the stacks and the compound items.
RefsTo(h, es, as, r) ==
    Occurrences(es, RefV(r)) + Occurrences(as, RefV(r)) + HeldRefs(h, r)

RECURSIVE ValuesOf(_)
ValuesOf(entries) ==
    IF entries = {} THEN <<>>
    ELSE LET e == CHOOSE e \in entries : TRUE
         IN  <<e.value>> \o ValuesOf(entries \ {e})

\* What a compound item holds.
Contents(o) == o.elems \o ValuesOf(o.entries)

\* updateSizeRemove: the values of pend are no longer held where they were;
\* each gives one item back, and a compound item that nothing refers to any
\* more is gone with all it holds.
RECURSIVE Release(_, _, _, _, _)
Release(h, n, es, as, pend) ==
    IF pend = <<>> THEN [heap |-> h, size |-> n]
    ELSE
      LET x == Head(pend)
          rest == Tail(pend)
      IN  IF x.k # "Ref"
             \/ RefsTo(h, es, as, x.v) + Occurrences(rest, x) > 0
          THEN Release(h, n - 1, es, as, rest)
          ELSE Release([h EXCEPT ![x.v] = FreeObj], n - 1, es, as,
                       rest \o Contents(h[x.v]))

\* A reference no compound item is stored under, 0 when all are taken.
NewRef(h) ==
    IF \E r \in RefIDs : h[r].t = "Free"
    THEN CHOOSE r \in RefIDs :
            h[r].t = "Free" /\ \A q \in RefIDs : h[q].t = "Free" => r <= q
    ELSE 0

\* Mutant: a struct is appended by reference like any other item.
cloneIfStruct_ByReference(h, x) == [ok |-> TRUE, heap |-> h, val |-> x, n |-> 1]

RECURSIVE cloneIfStruct(_, _), cloneElems(_, _, _)

\* cloneIfStruct: a struct is copied, with the structs it holds; n is the
\* number of items the value stands for.
cloneIfStruct(h, x) ==
    IF x.k # "Ref" \/ h[x.v].t # "Struct"
    THEN [ok |-> TRUE, heap |-> h, val |-> x, n |-> 1]
    ELSE
      LET r == NewRef(h)
      IN  IF r = 0 THEN [ok |-> FALSE, heap |-> h, val |-> x, n |-> 0]
          ELSE LET c == cloneElems([h EXCEPT ![r] = StructObj(<<>>)],
                                   h[x.v].elems, 1)
               IN  [ok |-> c.ok,
                    heap |-> [c.heap EXCEPT ![r] = StructObj(c.elems)],
                    val |-> RefV(r),
                    n |-> 1 + c.n]

cloneElems(h, l, i) ==
    IF i > Len(l) THEN [ok |-> TRUE, heap |-> h, elems |-> <<>>, n |-> 0]
    ELSE
      LET c == cloneIfStruct(h, l[i])
          rest == cloneElems(c.heap, l, i + 1)
      IN  [ok |-> c.ok /\ rest.ok, heap |-> rest.heap,
           elems |-> <<c.val>> \o rest.elems, n |-> c.n + rest.n]

\* Items a value leads to, itself included when it is a reference.
RECURSIVE ReachableIn(_, _, _)
ReachableIn(h, R, n) ==
    IF n = 0 THEN R
    ELSE ReachableIn(h,
            R \cup {r \in RefIDs : \E q \in R :
                      \E i \in 1 .. Len(Contents(h[q])) :
                         Contents(h[q])[i] = RefV(r)},
            n - 1)

ReachableFrom(h, x) ==
    IF x.k # "Ref" THEN {} ELSE ReachableIn(h, {x.v}, MaxRefs)

\* Storing x in item r would make an item hold itself.
MakesCycle(h, x, r) == r \in ReachableFrom(h, x)

\* The orders in which the members of a set can be enumerated.
Orders(S) ==
    {l \in [1 .. Cardinality(S) -> S] : \A x \in S : \E i \in DOMAIN l : l[i] = x}

\* What an instruction gives: the stacks, the compound items and the size
\* counter after it, or a fault.
Out(es, as, h, n) == [ok |-> TRUE, es |-> es, as |-> as, heap |-> h, size |-> n]
Faulted(c) == [ok |-> FALSE, es |-> c.es, as |-> c.as, heap |-> c.heap,
               size |-> c.size]

\* Mutant: a dropped reference gives one item back and what the item holds
\* stays counted.
Releasing_KeepsContents(es, as, h, n, pend) ==
    LET rel == Release(h, n, es, as, pend)
    IN  Out(es, as, rel.heap, n - Len(pend))

\* The instruction is done but for the values it dropped: they are released.
Releasing(es, as, h, n, pend) ==
    LET rel == Release(h, n, es, as, pend)
    IN  Out(es, as, rel.heap, rel.size)

IsRefTo(h, x, kinds) == x.k = "Ref" /\ h[x.v].t \in kinds

\* The item is a boolean, an integer or a byte array.
IsPrimitive(x) == x.k \in {"Bool", "Int", "Bytes"}

\* Mutant: a container is full only above MaxArraySize elements.
arrayFull_OneMore(n) == n > MaxArraySize

\* A container of n elements takes no more.
arrayFull(n) == n >= MaxArraySize

\* A count of elements no container can have.
tooMany(n) == n < 0 \/ n > MaxArraySize

ItemOpcodes ==
    {"PUSH0", "PUSH1", "PUSH2", "DUP", "DROP", "TOALTSTACK", "FROMALTSTACK",
     "DUPFROMALTSTACK", "NEWARRAY", "NEWSTRUCT", "NEWMAP", "APPEND",
     "SETITEM", "REMOVE", "CLEARITEMS", "KEYS", "VALUES"}

\* Mutant: NEWARRAY and NEWSTRUCT copy an item of their own kind too.
keepsItem_Never(t, kind) == FALSE

\* NEWARRAY on an array and NEWSTRUCT on a struct leave the item there.
keepsItem(t, kind) == t = kind

\* NEWARRAY and NEWSTRUCT: an integer gives a new item of that many elements,
\* an item of the same kind stays, an item of the other kind is copied.
newCompound(kind, c) ==
    IF Len(c.es) < 1 THEN {Faulted(c)}
    ELSE
      LET x == Top(c.es)
          r == NewRef(c.heap)
          make(l) == [t |-> kind, elems |-> l, entries |-> {}]
      IN  IF x.k = "Interop" THEN {Faulted(c)}
          ELSE IF IsPrimitive(x)
          THEN LET n == ToInt(x)
               IN  IF tooMany(n) THEN {Faulted(c)}
                   ELSE IF r = 0 THEN {}
                   ELSE {Out(Append(Pop(c.es), RefV(r)), c.as,
                             [c.heap EXCEPT ![r] =
                                 make([i \in 1 .. n |-> BoolV(FALSE)])],
                             c.size + n)}
          ELSE IF keepsItem(c.heap[x.v].t, kind)
          THEN {Out(c.es, c.as, c.heap, c.size)}
          ELSE IF c.heap[x.v].t = "Map" THEN {Faulted(c)}
          ELSE IF r = 0 THEN {}
          ELSE LET l == c.heap[x.v].elems
                   es1 == Append(Pop(c.es), RefV(r))
               IN  {Releasing(es1, c.as, [c.heap EXCEPT ![r] = make(l)],
                              c.size + 1 + Len(l), <<x>>)}

\* APPEND: the item on top goes to the end of the array or struct below it.
append(c) ==
    IF Len(c.es) < 2 THEN {Faulted(c)}
    ELSE
      LET item == Top(c.es)
          arr == c.es[Len(c.es) - 1]
      IN  IF ~IsRefTo(c.heap, arr, {"Array", "Struct"}) THEN {Faulted(c)}
          ELSE IF arrayFull(Len(c.heap[arr.v].elems)) THEN {Faulted(c)}
          ELSE IF MakesCycle(c.heap, item, arr.v) THEN {}
          ELSE LET cl == cloneIfStruct(c.heap, item)
               IN  IF ~cl.ok THEN {}
                   ELSE {Releasing(Pop2(c.es), c.as,
                            [cl.heap EXCEPT ![arr.v].elems = Append(@, cl.val)],
                            c.size + cl.n, <<item, arr>>)}

\* SETITEM: value on top, key below it, the map, array or struct below.
setItem(c) ==
    IF Len(c.es) < 3 THEN {Faulted(c)}
    ELSE
      LET x == Top(c.es)
          key == c.es[Len(c.es) - 1]
          obj == c.es[Len(c.es) - 2]
          es1 == SubSeq(c.es, 1, Len(c.es) - 3)
          i == ToInt(key)
      IN  IF ~IsPrimitive(key) \/ obj.k # "Ref" THEN {Faulted(c)}
          ELSE IF c.heap[obj.v].t = "Map"
          THEN LET old == {e \in c.heap[obj.v].entries : e.key = key}
                   h1 == [c.heap EXCEPT ![obj.v].entries =
                             (@ \ old) \cup {Entry(key, x)}]
               IN  IF old = {}
                      /\ arrayFull(Cardinality(c.heap[obj.v].entries))
                   THEN {Faulted(c)}
                   ELSE IF MakesCycle(c.heap, x, obj.v) THEN {}
                   ELSE {Releasing(es1, c.as, h1, c.size + 1,
                                   <<x, key, obj>> \o ValuesOf(old))}
          ELSE IF i < 0 \/ i >= Len(c.heap[obj.v].elems) THEN {Faulted(c)}
          ELSE IF MakesCycle(c.heap, x, obj.v) THEN {}
          ELSE LET h1 == [c.heap EXCEPT ![obj.v].elems[i + 1] = x]
               IN  {Releasing(es1, c.as, h1, c.size + 1,
                              <<x, key, obj, c.heap[obj.v].elems[i + 1]>>)}

\* REMOVE: key on top, the map, array or struct below.
remove(c) ==
    IF Len(c.es) < 2 THEN {Faulted(c)}
    ELSE
      LET key == Top(c.es)
          obj == c.es[Len(c.es) - 1]
          es1 == Pop2(c.es)
          i == ToInt(key)
      IN  IF ~IsPrimitive(key) \/ obj.k # "Ref" THEN {Faulted(c)}
          ELSE IF c.heap[obj.v].t = "Map"
          THEN LET old == {e \in c.heap[obj.v].entries : e.key = key}
                   h1 == [c.heap EXCEPT ![obj.v].entries = @ \ old]
               IN  {Releasing(es1, c.as, h1, c.size,
                              <<key, obj>> \o ValuesOf(old))}
          ELSE LET l == c.heap[obj.v].elems
               IN  IF i < 0 \/ i >= Len(l) THEN {Faulted(c)}
                   ELSE {Releasing(es1, c.as,
                            [c.heap EXCEPT ![obj.v].elems =
                               SubSeq(l, 1, i) \o SubSeq(l, i + 2, Len(l))],
                            c.size, <<key, obj, l[i + 1]>>)}

\* CLEARITEMS: the compound item on top loses all it holds.
clearItems(c) ==
    IF Len(c.es) < 1 \/ Top(c.es).k # "Ref" THEN {Faulted(c)}
    ELSE LET obj == Top(c.es)
             o == c.heap[obj.v]
         IN  {Releasing(Pop(c.es), c.as,
                        [c.heap EXCEPT ![obj.v] =
                            [t |-> o.t, elems |-> <<>>, entries |-> {}]],
                        c.size, <<obj>> \o Contents(o))}

\* KEYS and VALUES on a map: a new array of its keys or of its values, in
\* the order in which the map is enumerated.
enumerated(c, values) ==
    LET obj == Top(c.es)
        r == NewRef(c.heap)
        es1 == Append(Pop(c.es), RefV(r))
    IN  IF r = 0 THEN {}
        ELSE {Releasing(es1, c.as,
                        [c.heap EXCEPT ![r] =
                            ArrayObj([i \in 1 .. Len(l) |->
                                        IF values THEN l[i].value ELSE l[i].key])],
                        c.size + 1 + Len(l), <<obj>>) :
              l \in Orders(c.heap[obj.v].entries)}

keys(c) ==
    IF Len(c.es) < 1 \/ ~IsRefTo(c.heap, Top(c.es), {"Map"}) THEN {Faulted(c)}
    ELSE enumerated(c, FALSE)

\* VALUES on an array or struct: a new array of its elements, structs copied.
values(c) ==
    IF Len(c.es) < 1 \/ Top(c.es).k # "Ref" THEN {Faulted(c)}
    ELSE IF c.heap[Top(c.es).v].t = "Map" THEN enumerated(c, TRUE)
    ELSE
      LET obj == Top(c.es)
          r == NewRef(c.heap)
      IN  IF r = 0 THEN {}
          ELSE LET cl == cloneElems([c.heap EXCEPT ![r] = ArrayObj(<<>>)],
                                    c.heap[obj.v].elems, 1)
               IN  IF ~cl.ok THEN {}
                   ELSE {Releasing(Append(Pop(c.es), RefV(r)), c.as,
                            [cl.heap EXCEPT ![r] = ArrayObj(cl.elems)],
                            c.size + 1 + cl.n, <<obj>>)}

\* PACK: the count on top, then that many items, become a new array whose
\* first element is the item that was on top.
pack(c) ==
    IF Len(c.es) < 1 \/ ~IsPrimitive(Top(c.es)) THEN {Faulted(c)}
    ELSE
      LET n == ToInt(Top(c.es))
          rest == Pop(c.es)
          r == NewRef(c.heap)
      IN  IF tooMany(n) \/ n > Len(rest) THEN {Faulted(c)}
          ELSE IF r = 0 THEN {}
          ELSE LET items == [i \in 1 .. n |-> rest[Len(rest) - i + 1]]
                   es1 == Append(SubSeq(rest, 1, Len(rest) - n), RefV(r))
               IN  {Releasing(es1, c.as, [c.heap EXCEPT ![r] = ArrayObj(items)],
                              c.size + 1, <<Top(c.es)>>)}

\* StackItem.Bytes of a primitive item.
itemBytes(x) ==
    CASE x.k = "Int" -> IntToBytes(x.v)
      [] x.k = "Bool" -> <<x.v>>
      [] OTHER -> x.bs

\* Mutant: arrays and maps are compared by what they hold.
sameCompound_ByContents(h, a, b) == h[a.v] = h[b.v]

\* ArrayItem.Equals and MapItem.Equals: it is the same item.
sameCompound(h, a, b) == a.v = b.v

\* StackItem.Equals: primitive items by their bytes, arrays and maps by
\* identity, structs element by element.
RECURSIVE itemEquals(_, _, _, _)
itemEquals(h, a, b, fuel) ==
    IF a.k = "Ref" /\ b.k = "Ref"
    THEN IF h[a.v].t = "Struct" /\ h[b.v].t = "Struct" /\ fuel > 0
         THEN \/ a.v = b.v
              \/ /\ Len(h[a.v].elems) = Len(h[b.v].elems)
                 /\ \A i \in 1 .. Len(h[a.v].elems) :
                       itemEquals(h, h[a.v].elems[i], h[b.v].elems[i], fuel - 1)
         ELSE h[a.v].t = h[b.v].t /\ sameCompound(h, a, b)
    ELSE IF IsPrimitive(a) /\ IsPrimitive(b) THEN itemBytes(a) = itemBytes(b)
    ELSE a = b

\* EQUAL: the two items on top give a boolean.
equal(c) ==
    IF Len(c.es) < 2 THEN {Faulted(c)}
    ELSE LET b == Top(c.es)
             a == c.es[Len(c.es) - 1]
         IN  {Releasing(Append(Pop2(c.es), BoolV(itemEquals(c.heap, a, b, MaxRefs))),
                        c.as, c.heap, c.size + 1, <<b, a>>)}

RECURSIVE Reversed(_)
Reversed(l) == IF l = <<>> THEN <<>> ELSE Append(Reversed(Tail(l)), Head(l))

\* REVERSEITEMS: the array or struct on top has its elements in reverse
\* order.
reverseItems(c) ==
    IF Len(c.es) < 1 \/ ~IsRefTo(c.heap, Top(c.es), {"Array", "Struct"})
    THEN {Faulted(c)}
    ELSE LET obj == Top(c.es)
         IN  {Releasing(Pop(c.es), c.as,
                        [c.heap EXCEPT ![obj.v].elems = Reversed(@)],
                        c.size, <<obj>>)}

\* v.execute on compound items: what the instruction can give.
itemExecute(op, c) ==
    CASE op \in {"PUSH0", "PUSH1", "PUSH2"} ->
           {Out(Append(c.es, IntV(CASE op = "PUSH0" -> 0 [] op = "PUSH1" -> 1
                                    [] OTHER -> 2)),
                c.as, c.heap, c.size + 1)}
      [] op = "DUP" ->
           IF Len(c.es) < 1 THEN {Faulted(c)}
           ELSE {Out(Append(c.es, Top(c.es)), c.as, c.heap, c.size + 1)}
      [] op = "DROP" ->
           IF Len(c.es) < 1 THEN {Faulted(c)}
           ELSE {Releasing(Pop(c.es), c.as, c.heap, c.size, <<Top(c.es)>>)}
      [] op = "TOALTSTACK" ->
           IF Len(c.es) < 1 THEN {Faulted(c)}
           ELSE {Out(Pop(c.es), Append(c.as, Top(c.es)), c.heap, c.size)}
      [] op = "FROMALTSTACK" ->
           IF Len(c.as) < 1 THEN {Faulted(c)}
           ELSE {Out(Append(c.es, Top(c.as)), Pop(c.as), c.heap, c.size)}
      [] op = "DUPFROMALTSTACK" ->
           IF Len(c.as) < 1 THEN {Faulted(c)}
           ELSE {Out(Append(c.es, Top(c.as)), c.as, c.heap, c.size + 1)}
      [] op = "NEWARRAY" -> newCompound("Array", c)
      [] op = "NEWSTRUCT" -> newCompound("Struct", c)
      [] op = "NEWMAP" ->
           LET r == NewRef(c.heap)
           IN  IF r = 0 THEN {}
               ELSE {Out(Append(c.es, RefV(r)), c.as,
                         [c.heap EXCEPT ![r] = MapObj({})], c.size + 1)}
      [] op = "APPEND" -> append(c)
      [] op = "SETITEM" -> setItem(c)
      [] op = "REMOVE" -> remove(c)
      [] op = "CLEARITEMS" -> clearItems(c)
      [] op = "KEYS" -> keys(c)
      [] op = "VALUES" -> values(c)
      [] op = "PACK" -> pack(c)
      [] op = "EQUAL" -> equal(c)
      [] op = "REVERSEITEMS" -> reverseItems(c)

\* Mutant: the size check lets one item more through.
itemStep_OneMore(op, c) ==
    {[state |-> IF ~r.ok \/ r.size > MaxItemStackSize + 1
                THEN "FAULT" ELSE "NONE",
      es |-> r.es, as |-> r.as, heap |-> r.heap, size |-> r.size] :
     r \in itemExecute(op, c)}

\* v.Step: the instruction, then the stack-size check.
itemStep(op, c) ==
    {[state |-> IF ~r.ok \/ r.size > MaxItemStackSize THEN "FAULT" ELSE "NONE",
      es |-> r.es, as |-> r.as, heap |-> r.heap, size |-> r.size] :
     r \in itemExecute(op, c)}

Range(l) == {l[i] : i \in 1 .. Len(l)}

\* Items the stacks lead to.
Live(h, es, as) ==
    ReachableIn(h, {r \in RefIDs : RefV(r) \in Range(es) \cup Range(as)},
                MaxRefs)

\* The stacks and compound items the tests start from.
Load(es, as, items) ==
    [es |-> es, as |-> as,
     heap |-> [r \in RefIDs |-> IF r <= Len(items) THEN items[r] ELSE FreeObj]]

ItemLoads ==
    {Load(<<>>, <<>>, <<>>),
     Load(<<RefV(1)>>, <<>>, <<ArrayObj(<<>>)>>),
     Load(<<RefV(1)>>, <<>>, <<StructObj(<<>>)>>),
     Load(<<RefV(1)>>, <<>>, <<ArrayObj(<<IntV(1), IntV(2)>>)>>),
     Load(<<RefV(1)>>, <<>>,
          <<MapObj({Entry(IntV(0), IntV(1)), Entry(IntV(1), IntV(2))})>>),
     Load(<<RefV(1), RefV(1), RefV(2)>>, <<RefV(2)>>,
          <<ArrayObj(<<>>), StructObj(<<>>)>>),
     Load(<<RefV(1), RefV(1), RefV(2)>>, <<RefV(2)>>,
          <<ArrayObj(<<>>), StructObj(<<IntV(0), IntV(0)>>)>>),
     Load(<<RefV(1), RefV(2), RefV(1), RefV(2)>>, <<RefV(1)>>,
          <<ArrayObj(<<>>), StructObj(<<IntV(0)>>)>>),
     Load(<<RefV(2), RefV(2), IntV(2), RefV(1)>>, <<RefV(1)>>,
          <<ArrayObj(<<IntV(0)>>), MapObj({})>>)}

\* The compound items an element of item r leads to.
Inside(h, r) ==
    ReachableIn(h, {q \in RefIDs : RefV(q) \in Range(Contents(h[r]))}, MaxRefs)

\* The item leads to a compound item that holds itself.
Cyclic(h, x) == \E r \in ReachableFrom(h, x) : r \in Inside(h, r)

\* The item is an interop handle or leads to one.
HoldsInterop(h, x) ==
    \/ x = InteropV
    \/ \E r \in ReachableFrom(h, x) : InteropV \in Range(Contents(h[r]))

\* The item leads to a compound item by two ways.
Shared(h, x) ==
    \E r \in ReachableFrom(h, x) :
        SumOver1([q \in RefIDs |->
                    IF q \in ReachableFrom(h, x)
                    THEN Occurrences(Contents(h[q]), RefV(r)) ELSE 0],
                 MaxRefs) > 1

\* Mutant: every item met before is refused, a primitive one too.
notSerializable_SeenAny(h, x) ==
    \/ HoldsInterop(h, x)
    \/ Cyclic(h, x)
    \/ \E r \in ReachableFrom(h, x) :
          \E i, j \in 1 .. Len(Contents(h[r])) :
             i # j /\ Contents(h[r])[i] = Contents(h[r])[j]

\* serializeItemTo refuses an item that holds itself and an interop handle.
notSerializable(h, x) == HoldsInterop(h, x) \/ Cyclic(h, x)

\* The item as a value, for an item that does not hold itself.
RECURSIVE ToItem(_, _)
ToItem(h, x) ==
    CASE x.k = "Int" -> IntItem(x.v)
      [] x.k = "Bool" -> BoolItem(x.v = 1)
      [] x.k = "Bytes" -> BytesItem(x.bs)
      [] OTHER ->
           LET o == h[x.v]
               l == [i \in 1 .. Len(o.elems) |-> ToItem(h, o.elems[i])]
           IN  CASE o.t = "Array" -> ArrayItem(l)
                 [] o.t = "Struct" -> NewStructItem(l)
                 [] OTHER ->
                      NewMapItem({[key |-> ToItem(h, e.key),
                                   value |-> ToItem(h, e.value)] :
                                  e \in o.entries})

\* SerializeItem on an item of the VM: the data, or an error. Whether an
\* item that is reached by two ways without holding itself is refused is
\* not fixed here.
serializeItem(h, x) ==
    IF notSerializable(h, x) THEN {[ok |-> FALSE, data |-> <<>>]}
    ELSE (IF Shared(h, x) THEN {[ok |-> FALSE, data |-> <<>>]} ELSE {})
         \cup {[ok |-> TRUE, data |-> d] : d \in SerializeItem(ToItem(h, x))}

ItemIdle ==
    /\ itemState = "NONE"
    /\ itemEstack = <<>>
    /\ itemAstack = <<>>
    /\ heap = EmptyHeap
    /\ vmSize = 0
    /\ itemSteps = 0
    /\ itemOp = ""
    /\ copies = {}

\* ---------------------------------------------------- consensus: the bounds

NValidators == 4

MaxView == 1

MaxDup == 1

\* The height the replicas work on.
Height == 2

\* ------------------------------------------------- consensus: the replicas

\* The validators of the height, by position in the sorted key list.
Validators == 0 .. (NValidators - 1)

\* The Byzantine tolerance F = (N-1)/3 and the quorum M = N - F.
FaultyLimit == (NValidators - 1) \div 3

QuorumSize == NValidators - FaultyLimit

Views == 0 .. MaxView

\* A block is known by the nonce of its PrepareRequest: the primary of view v
\* draws a fresh one, here v itself.
Blocks == Views

NoBlock == -1

\* validators[(height - v) mod N]
Primary(v) == (Height - v) % NValidators

\* A consensus payload: its type, the view it was sent in, its sender and
\* the block it is about (none for a ChangeView, whose view is the new view).
Payload(t, v, s, b) == [type |-> t, view |-> v, from |-> s, blk |-> b]

PayloadTypes ==
    {"PrepareRequest", "PrepareResponse", "Commit", "ChangeView"}

\* Whatever a faulty validator can sign: any payload under its own name, a
\* PrepareRequest only where it is the primary (backups check the identity).
FaultyPayloads(fs) ==
    {m \in [type : PayloadTypes, view : Views, from : fs,
            blk : Blocks \cup {NoBlock}] :
        /\ m.type = "PrepareRequest" => m.from = Primary(m.view)
        /\ m.type \in {"PrepareRequest", "PrepareResponse", "Commit"}
              => m.blk # NoBlock
        /\ m.type = "ChangeView" => m.blk = NoBlock}

\* The payloads of the given types, views and block among those on the
\* network (a bag: the network may deliver a payload twice) and those of the
\* faulty validators that have reached the replica.
Matching(msgs, ts, vs, b) ==
    {m \in msgs : m.type \in ts /\ m.view \in vs /\ m.blk = b}

countSenders_Copies(bag, extra, ts, vs, b) ==
    BagCardinality([m \in Matching(BagToSet(bag), ts, vs, b) |-> bag[m]])
    + Cardinality(Matching(extra, ts, vs, b))

\* The validators counted toward a quorum: one per sender, however many
\* payloads of the same (height, view, type, sender) have arrived.
countSenders(bag, extra, ts, vs, b) ==
    Cardinality({m.from : m \in Matching(BagToSet(bag) \cup extra, ts, vs, b)})

hasQuorum_OneLess(n) == n >= QuorumSize - 1

hasQuorum(n) == n >= QuorumSize

canCommit_NotSticky(own, b) == TRUE

\* A replica's own commit is sticky: it signs a block only if it has signed
\* none or this one.
canCommit(own, b) == own \in {NoBlock, b}

resetPhase_KeepsPreparation(r, w, acc) == acc

\* The phase state a replica starts a view with.
startPhase(r, w) == IF r = Primary(w) THEN "INITIAL" ELSE "BACKUP_WAITING"

\* The preparation a replica holds after moving to view w: none.
resetPhase(r, w, acc) == NoBlock

DbftIdle ==
    /\ faulty = {}
    /\ view = <<>>
    /\ phase = <<>>
    /\ accepted = <<>>
    /\ commit = <<>>
    /\ block = <<>>
    /\ network = EmptyBag
    /\ redelivered = FALSE

\* ------------------------------------------------------ RPC client: bounds

MaxBlockCount == 2

MaxValidatorsCount == 2

MaxCalls == 3

\* c.cache of a new client: no validator count yet.
EmptyCache == [set |-> FALSE, validatorsCount |-> 0]

needValidators_Always(c) == TRUE

\* The validator count has to be asked of the node.
needValidators(c) == ~c.set

\* The cache after getvalidators has answered with n validators.
storeValidators(c, n) == [set |-> TRUE, validatorsCount |-> n]

validUntil_BlockCountOnly(blockCount, validatorsCount) == blockCount

\* The result: block count plus number of validators.
validUntil(blockCount, validatorsCount) == blockCount + validatorsCount

RpcIdle ==
    /\ nodeBlockCount = 0
    /\ nodeValidators = 0
    /\ rpcPc = "idle"
    /\ rpcBlockCount = 0
    /\ rpcCache = EmptyCache
    /\ getBlockCountCalled = 0
    /\ getValidatorsCalled = 0
    /\ validUntilBlock = 0
    /\ rpcErr = FALSE
    /\ rpcCalls = 0
    /\ atCall = <<>>

\* ------------------------------------------------- control flow: operators

\* The VM's limit on nested contexts, scaled down.
MaxInvocationStackSize == 3
\* Bytes of a script hash (20 in the code), scaled down.
ScriptHashLen == 2

\* A byte of a script: an opcode, or a byte of an operand.
Op(name) == [op |-> name, n |-> 0]
Byte(n) == [op |-> "", n |-> n]

\* makeProgram: the opcodes and a final RET.
makeProgram(ops) == [i \in 1 .. Len(ops) |-> Op(ops[i])] \o <<Op("RET")>>

ShortJumps ==
    {"JMP", "JMPIF", "JMPIFNOT", "JMPEQ", "JMPNE", "JMPGT", "JMPGE", "JMPLT",
     "JMPLE"}
LongJumps == {"JMPL", "JMPIFL", "JMPIFNOTL", "JMPEQL", "JMPNEL", "JMPGTL",
              "JMPGEL", "JMPLTL", "JMPLEL"}

isLongJMP(op) == op \in LongJumps

\* Mutant: the operand of a long jump is taken to be one byte, as that of
\* a short one.
operandLen_OneByte(op) ==
    CASE op \in ShortJumps \cup LongJumps \cup {"CALL"} -> 1
      [] op = "PUSHINT16" -> 2
      [] op = "APPCALL" -> ScriptHashLen
      [] OTHER -> 0

\* Bytes of the operand that follows an opcode.
operandLen(op) ==
    CASE op \in ShortJumps \cup {"CALL"} -> 1
      [] op \in LongJumps -> 4
      [] op = "PUSHINT16" -> 2
      [] op = "APPCALL" -> ScriptHashLen
      [] OTHER -> 0

\* getJumpOffset: the operand of a jump or CALL, one or four bytes.
getJumpOffset(bs) == Signed(bs)

\* getJMPProgram: the jump over PUSH1 RET to PUSH2 RET.
getJMPProgram(op) ==
    <<Op(op)>>
    \o (IF isLongJMP(op) THEN <<Byte(7), Byte(0), Byte(0), Byte(0)>>
        ELSE <<Byte(4)>>)
    \o <<Op("PUSH1"), Op("RET"), Op("PUSH2"), Op("RET")>>

\* callNTimes: the script calls itself n times, each call nested in the
\* one before.
callNTimes(n) ==
    <<Op("PUSHINT16"), Byte(n % 256), Byte(n \div 256),
      Op("TOALTSTACK"), Op("DUPFROMALTSTACK"),
      Op("JMPIF"), Byte(3), Op("RET"),
      Op("FROMALTSTACK"), Op("DEC"),
      Op("CALL"), Byte(249)>>

\* A context of the invocation stack.
Context(script, ip, dyn) == [script |-> script, ip |-> ip, dyn |-> dyn]

\* Items a jump takes from the stack.
jumpArity(op) ==
    CASE op \in {"JMP", "JMPL"} -> 0
      [] op \in {"JMPIF", "JMPIFL", "JMPIFNOT", "JMPIFNOTL"} -> 1
      [] OTHER -> 2

\* The condition of a jump: a is the item below the top (pushed first), b
\* the top.
jumpCond(op, a, b) ==
    CASE op \in {"JMP", "JMPL"} -> TRUE
      [] op \in {"JMPIF", "JMPIFL"} -> ToBool(b)
      [] op \in {"JMPIFNOT", "JMPIFNOTL"} -> ~ToBool(b)
      [] op \in {"JMPEQ", "JMPEQL"} -> ToInt(a) = ToInt(b)
      [] op \in {"JMPNE", "JMPNEL"} -> ToInt(a) # ToInt(b)
      [] op \in {"JMPGT", "JMPGTL"} -> ToInt(a) > ToInt(b)
      [] op \in {"JMPGE", "JMPGEL"} -> ToInt(a) >= ToInt(b)
      [] op \in {"JMPLT", "JMPLTL"} -> ToInt(a) < ToInt(b)
      [] OTHER -> ToInt(a) <= ToInt(b)

\* The VM running scripts: invocation stack (top last), the two stacks.
Ctl(state, ctxs, es, as) ==
    [state |-> state, istack |-> ctxs, es |-> es, as |-> as]

CtlFault(c) == [c EXCEPT !.state = "FAULT"]

\* The top context continues at ip.
Continue(c, ip, es, as) ==
    Ctl("NONE", [c.istack EXCEPT ![Len(c.istack)].ip = ip], es, as)

\* Mutant: the check lets one context more onto the invocation stack.
checkInvocationStackSize_OneMore(ctxs) ==
    Len(ctxs) <= MaxInvocationStackSize

\* checkInvocationStackSize: there is room for one context more.
checkInvocationStackSize(ctxs) == Len(ctxs) < MaxInvocationStackSize

\* v.jump: a target outside the script is a fault.
jump(c, target, next, cond, es) ==
    IF ~cond THEN Continue(c, next, es, c.as)
    ELSE IF target < 0 \/ target > Len(Top(c.istack).script) THEN CtlFault(c)
    ELSE Continue(c, target, es, c.as)

\* Script hashes: the all-zero one and two others.
HashOf(b) == [i \in 1 .. ScriptHashLen |-> IF i = 1 THEN b ELSE 0]
ZeroHash == HashOf(0)
CtlHashes == {HashOf(b) : b \in 0 .. 2}

\* What the script getter knows of a hash.
Known(get, hash) == {g \in get : g.hash = hash}

\* Mutant: a dynamic call is made whatever the flag of the caller.
dynamicAllowed_Always(ctx) == TRUE

dynamicAllowed(ctx) == ctx.dyn

\* Mutant: the callee starts with an empty evaluation stack.
calleeStack_Empty(es) == <<>>

\* The evaluation stack the callee of APPCALL runs on.
calleeStack(es) == es

\* APPCALL: an all-zero operand takes the hash from the stack; the script
\* of the hash is loaded as a new context.
appcall(c, operand, next, get) ==
    LET ctx == Top(c.istack)
        dynamic == operand = ZeroHash
        es1 == IF dynamic /\ c.es # <<>> THEN Pop(c.es) ELSE c.es
        hash == IF dynamic
                THEN (IF c.es # <<>> /\ Top(c.es).k = "Bytes"
                         /\ Len(Top(c.es).bs) = ScriptHashLen
                      THEN Top(c.es).bs ELSE <<>>)
                ELSE operand
    IN  IF ~checkInvocationStackSize(c.istack) THEN CtlFault(c)
        ELSE IF dynamic /\ ~dynamicAllowed(ctx) THEN CtlFault(c)
        ELSE IF Known(get, hash) = {} THEN CtlFault([c EXCEPT !.es = es1])
        ELSE LET g == CHOOSE g \in Known(get, hash) : TRUE
             IN  Ctl("NONE",
                     Append([c.istack EXCEPT ![Len(c.istack)].ip = next],
                            Context(g.script, 0, g.dyn)),
                     calleeStack(es1), c.as)

\* v.execute on the instruction at the top context's ip; the end of the
\* script is a RET.
ctlExecute(c, get) ==
    LET ctx == Top(c.istack)
        s == ctx.script
        atEnd == ctx.ip >= Len(s)
        op == IF atEnd THEN "RET" ELSE s[ctx.ip + 1].op
        n == operandLen(op)
        next == ctx.ip + 1 + n
        operand == IF atEnd \/ next > Len(s) THEN <<>>
                   ELSE [i \in 1 .. n |-> s[ctx.ip + 1 + i].n]
    IN  IF ~atEnd /\ next > Len(s) THEN CtlFault(c)
        ELSE
        CASE op = "RET" ->
               IF Len(c.istack) = 1
               THEN Ctl("HALT", <<>>, c.es, c.as)
               ELSE Ctl("NONE", Pop(c.istack), c.es, c.as)
          [] op \in {"PUSH1", "PUSH2"} ->
               Continue(c, next,
                        Append(c.es, IntV(IF op = "PUSH1" THEN 1 ELSE 2)), c.as)
          [] op = "PUSHINT16" ->
               Continue(c, next, Append(c.es, IntV(Signed(operand))), c.as)
          [] op = "DEPTH" ->
               Continue(c, next, Append(c.es, IntV(Len(c.es))), c.as)
          [] op = "DEC" ->
               IF c.es = <<>> THEN CtlFault(c)
               ELSE Continue(c, next,
                             Append(Pop(c.es), IntV(ToInt(Top(c.es)) - 1)), c.as)
          [] op = "TOALTSTACK" ->
               IF c.es = <<>> THEN CtlFault(c)
               ELSE Continue(c, next, Pop(c.es), Append(c.as, Top(c.es)))
          [] op = "FROMALTSTACK" ->
               IF c.as = <<>> THEN CtlFault(c)
               ELSE Continue(c, next, Append(c.es, Top(c.as)), Pop(c.as))
          [] op = "DUPFROMALTSTACK" ->
               IF c.as = <<>> THEN CtlFault(c)
               ELSE Continue(c, next, Append(c.es, Top(c.as)), c.as)
          [] op \in ShortJumps \cup LongJumps ->
               LET k == jumpArity(op)
               IN  IF Len(c.es) < k THEN CtlFault(c)
                   ELSE LET es1 == SubSeq(c.es, 1, Len(c.es) - k)
                            b == IF k >= 1 THEN Top(c.es) ELSE IntV(0)
                            a == IF k = 2 THEN c.es[Len(c.es) - 1] ELSE IntV(0)
                        IN  jump([c EXCEPT !.es = es1],
                                 ctx.ip + getJumpOffset(operand), next,
                                 jumpCond(op, a, b), es1)
          [] op = "CALL" ->
               IF ~checkInvocationStackSize(c.istack) THEN CtlFault(c)
               ELSE LET target == ctx.ip + getJumpOffset(operand)
                    IN  IF target < 0 \/ target > Len(s) THEN CtlFault(c)
                        ELSE Ctl("NONE",
                                 Append([c.istack EXCEPT ![Len(c.istack)].ip = next],
                                        Context(s, target, ctx.dyn)),
                                 c.es, c.as)
          [] op = "APPCALL" -> appcall(c, operand, next, get)
          [] OTHER -> CtlFault(c)

CtlIdle ==
    /\ ctlState = "NONE"
    /\ istack = <<>>
    /\ ctlEstack = <<>>
    /\ ctlAstack = <<>>
    /\ getScript = {}
    /\ ctlTest = <<>>
    /\ ctlOp = ""

\* ------------------------------------------------ prepareRequest timestamp

\* Width of the uint64 fields of the prepareRequest, scaled down; the
\* factor between p.timestamp and the value the interface hands out.
TimestampBits == 21
TimestampScale == 1000000

Uint64 == Pow(2, TimestampBits)

\* a * b in unsigned arithmetic of the word width (the product wraps).
RECURSIVE MulWrap(_, _)
MulWrap(a, b) ==
    IF b = 0 THEN 0
    ELSE (2 * MulWrap(a, b \div 2) + (IF b % 2 = 1 THEN a ELSE 0)) % Uint64

\* Mutant: the stored value is handed out as it is.
Timestamp_NoScale(p) == p

\* prepareRequest.Timestamp(): p.timestamp * 1000000.
Timestamp(p) == MulWrap(p, TimestampScale)

\* prepareRequest.SetTimestamp(ts): the new p.timestamp, ts / 1000000.
SetTimestamp(ts) == ts \div TimestampScale

PrIdle ==
    /\ timestamp = 0
    /\ tsArg = -1
    /\ tsRet = -1
    /\ prOp = ""

LateIdle == CtlIdle /\ PrIdle

ExtraIdle == SerIdle /\ ItemIdle /\ DbftIdle /\ RpcIdle /\ LateIdle

CoreIdle == ChainIdle /\ InvokeIdle /\ AssetIdle /\ VMIdle

\* ------------------------------------------------------------------ genesis

GenesisOutputs ==
    <<Output(GoverningTokenID, 1, "A"), Output(GoverningTokenID, MaxAmount, "A")>>

Genesis ==
    [coins |-> [h \in Hashes |->
                  IF h = GenesisHash THEN NewUnspentCoin(0, GenesisOutputs)
                  ELSE NoCoin],
     accounts |-> processOutputsFrom(GenesisHash, GenesisOutputs, 1,
                                     [s \in ScriptHashes |-> NewAccount]),
     assets |-> [a \in Assets |->
                   [exists |-> TRUE,
                    available |-> OutputAmount(GenesisOutputs, a)]],
     hist |-> [spentRefs |-> ZeroRefs, claimRefs |-> ZeroRefs,
               minted |-> ZeroAmounts, burned |-> ZeroAmounts]]

\* ------------------------------------------------------------------ actions

\* The chain after the genesis block and one block whose only transaction
\* transfers the first genesis output to account B.
TransferTx ==
    Tx("Contract", <<Input(GenesisHash, 0)>>,
       <<Output(GoverningTokenID, 1, "B")>>, <<>>)

AfterTransfer == applyTx(TransferTx, 1, Genesis, FALSE).dao

\* The node starts from the genesis block or from the chain AfterTransfer.
Init ==
    /\ store \in {Genesis, AfterTransfer}
    /\ cache = store
    /\ height = (IF store = Genesis THEN 0 ELSE 1)
    /\ first = NextHash(store)
    /\ inBlock = FALSE
    /\ blockTxs = 0
    /\ VerifyTransactions \in BOOLEAN
    /\ lastErr = NoErr
    /\ InvokeIdle
    /\ AssetIdle
    /\ VMIdle
    /\ ExtraIdle

\* storeBlock starts: a fresh cache over the store.
BeginBlock ==
    /\ ~inBlock
    /\ NextHash(store) < first + MaxTx
    /\ inBlock' = TRUE
    /\ cache' = store
    /\ blockTxs' = 0
    /\ lastErr' = NoErr
    /\ UNCHANGED <<store, first, height, VerifyTransactions, invokeVars, assetVars, vmVars,
                   extraVars>>

\* Mutant: a failed transaction leaves what it wrote in the block's cache.
ApplyTx_KeepsCacheOnError ==
    /\ inBlock
    /\ NextHash(cache) < first + MaxTx
    /\ \E tx \in TxUniverse(cache) :
          /\ VerifyTransactions => verifyTx(tx, store)
          /\ LET r == applyTx(tx, height + 1, cache, VerifyTransactions)
             IN  /\ cache' = r.dao
                 /\ inBlock' = (r.err = NoErr)
                 /\ blockTxs' = (IF r.err = NoErr THEN blockTxs + 1 ELSE 0)
                 /\ lastErr' = r.err
    /\ UNCHANGED <<store, first, height, VerifyTransactions, invokeVars, assetVars, vmVars,
                   extraVars>>

\* The next transaction of the block is processed; an error fails the block
\* and drops the cache.
ApplyTx ==
    /\ inBlock
    /\ NextHash(cache) < first + MaxTx
    /\ \E tx \in TxUniverse(cache) :
          /\ VerifyTransactions => verifyTx(tx, store)
          /\ LET r == applyTx(tx, height + 1, cache, VerifyTransactions)
             IN  IF r.err # NoErr
                 THEN /\ cache' = store
                      /\ inBlock' = FALSE
                      /\ blockTxs' = 0
                      /\ lastErr' = r.err
                 ELSE /\ cache' = r.dao
                      /\ inBlock' = TRUE
                      /\ blockTxs' = blockTxs + 1
                      /\ lastErr' = NoErr
    /\ UNCHANGED <<store, first, height, VerifyTransactions, invokeVars, assetVars, vmVars,
                   extraVars>>

\* The block's cache is persisted.
CommitBlock ==
    /\ inBlock
    /\ blockTxs >= 1
    /\ store' = cache
    /\ height' = height + 1
    /\ inBlock' = FALSE
    /\ blockTxs' = 0
    /\ lastErr' = NoErr
    /\ UNCHANGED <<cache, first, VerifyTransactions, invokeVars, assetVars, vmVars,
                   extraVars>>

Next == BeginBlock \/ ApplyTx \/ CommitBlock

Spec == Init /\ [][Next]_vars

\* ------------------------------------------------- invocation: the blocks

\* A node with any storage content and any free-gas configuration.
InitInvoke ==
    /\ ChainIdle
    /\ AssetIdle
    /\ VMIdle
    /\ ExtraIdle
    /\ \E kv \in LayerValues : storage = [EmptyStorage EXCEPT !.kv = kv]
    /\ blockCache = NewBlockCache(storage)
    /\ invoking = FALSE
    /\ txCount = 0
    /\ FreeGasLimit \in 0 .. MaxFreeGasLimit
    /\ flat = storage.kv

\* storeBlock starts: a fresh cache over the store.
InvokeBegin ==
    /\ ~invoking
    /\ txCount < MaxInvocations
    /\ invoking' = TRUE
    /\ blockCache' = NewBlockCache(storage)
    /\ UNCHANGED <<storage, txCount, FreeGasLimit, flat, chainVars, assetVars, vmVars,
                   extraVars>>

\* The next invocation transaction of the block is processed.
InvokeTx ==
    /\ invoking
    /\ txCount < MaxInvocations
    /\ \E t \in InvocationTXs :
          LET r == processInvocationTX(t, txCount + 1, blockCache, storage,
                                       FreeGasLimit)
          IN  /\ r.err = NoErr
              /\ blockCache' = r.cache
              /\ flat' = flatApply(t, flat, FreeGasLimit)
    /\ txCount' = txCount + 1
    /\ UNCHANGED <<storage, invoking, FreeGasLimit, chainVars, assetVars, vmVars,
                   extraVars>>

\* cache.Persist(): the block cache is flushed into the store.
InvokeCommit ==
    /\ invoking
    /\ storage' = [blockCache EXCEPT !.kv = Persist(blockCache.kv, storage.kv)]
    /\ blockCache' = NewBlockCache(storage')
    /\ invoking' = FALSE
    /\ UNCHANGED <<txCount, FreeGasLimit, flat, chainVars, assetVars, vmVars,
                   extraVars>>

NextInvoke == InvokeBegin \/ InvokeTx \/ InvokeCommit

SpecInvoke == InitInvoke /\ [][NextInvoke]_vars

\* ------------------------------------------------- assets: the transactions

InitAssets ==
    /\ ChainIdle
    /\ InvokeIdle
    /\ AssetIdle
    /\ VMIdle
    /\ ExtraIdle

\* A block with one RegisterTX is applied.
RegisterAsset ==
    /\ NextAsset(assetStates) \in AssetIDs
    /\ \E amount \in 1 .. MaxAssetAmount :
          assetStates' =
              [assetStates EXCEPT ![NextAsset(assetStates)] = RegisteredAsset(amount)]
    /\ issueErr' = NoErr
    /\ UNCHANGED <<chainVars, invokeVars, vmVars,
                   extraVars>>

\* A block with one IssueTX is applied; an error fails the block and drops
\* its cache.
IssueAsset ==
    /\ \E results \in IssueResults :
          LET r == processIssueTX(results, assetStates)
          IN  /\ \A a \in AssetIDs : r.assets[a].available <= MaxAvailable
              /\ issueErr' = r.err
              /\ assetStates' = (IF r.err = NoErr THEN r.assets ELSE assetStates)
    /\ UNCHANGED <<chainVars, invokeVars, vmVars,
                   extraVars>>

NextAssets == RegisterAsset \/ IssueAsset

SpecAssets == InitAssets /\ [][NextAssets]_vars

\* ------------------------------------------------------- VM: the operations

\* A new VM with a program loaded and the initial stack pushed.
InitVM ==
    /\ ChainIdle
    /\ InvokeIdle
    /\ AssetIdle
    /\ ExtraIdle
    /\ \E l \in Loads :
          /\ prog = l.prog
          /\ estack = l.es
          /\ breakPoints = l.breaks
    /\ astack = <<>>
    /\ vmIp = 1
    /\ vmState = "NONE"
    /\ lastOp = "Load"
    /\ runs = 1
    /\ hasPriceGetter \in BOOLEAN
    /\ vmGasLimit \in 0 .. MaxGasLimit
    /\ gasConsumed = 0

\* v.Step(), also each round of the loop of v.Run().
VMStep ==
    /\ vmState = "NONE"
    /\ LET r == gasStep(prog, vmIp, estack, astack, breakPoints,
                        hasPriceGetter, vmGasLimit, gasConsumed)
       IN  /\ vmState' = r.state
           /\ vmIp' = r.ip
           /\ estack' = r.es
           /\ astack' = r.as
           /\ gasConsumed' = r.gas
    /\ lastOp' = "Step"
    /\ UNCHANGED <<prog, breakPoints, runs, hasPriceGetter, vmGasLimit,
                   chainVars, invokeVars, assetVars,
                   extraVars>>

\* v.Run() on a VM stopped at a break point: the run goes on.
VMResume ==
    /\ vmState = "BREAK"
    /\ vmState' = "NONE"
    /\ lastOp' = "Resume"
    /\ UNCHANGED <<prog, vmIp, estack, astack, breakPoints, runs,
                   hasPriceGetter, vmGasLimit, gasConsumed,
                   chainVars, invokeVars, assetVars,
                   extraVars>>

\* Mutant: the reloaded program does not start again.
VMLoad_NoRestart ==
    /\ vmState = "HALT"
    /\ runs < MaxRuns
    /\ vmState' = "NONE"
    /\ runs' = runs + 1
    /\ lastOp' = "Load"
    /\ UNCHANGED <<prog, vmIp, estack, astack, breakPoints,
                   hasPriceGetter, vmGasLimit, gasConsumed,
                   chainVars, invokeVars, assetVars,
                   extraVars>>

\* v.Load(prog) on a VM that has run its program to HALT: the stacks are
\* cleared, the gas consumed is back at zero and the program starts again;
\* the caller may set a price getter or another gas limit before the run.
VMLoad ==
    /\ vmState = "HALT"
    /\ runs < MaxRuns
    /\ vmState' = "NONE"
    /\ vmIp' = 1
    /\ estack' = <<>>
    /\ astack' = <<>>
    /\ runs' = runs + 1
    /\ lastOp' = "Load"
    /\ gasConsumed' = 0
    /\ hasPriceGetter' \in {hasPriceGetter, TRUE}
    /\ vmGasLimit' \in 0 .. MaxGasLimit
    /\ UNCHANGED <<prog, breakPoints, chainVars, invokeVars, assetVars,
                   extraVars>>

NextVM == VMStep \/ VMResume \/ VMLoad

SpecVM == InitVM /\ [][NextVM]_vars

\* ------------------------------------------------ serialization: the program

\* load(getSerializeProg()) with one item pushed.
InitSerialize ==
    /\ CoreIdle
    /\ ItemIdle
    /\ DbftIdle
    /\ RpcIdle
    /\ LateIdle
    /\ serItem \in SerItems
    /\ serStack = <<serItem>>
    /\ serIp = 1
    /\ serFailed = FALSE

\* Neo.Runtime.Serialize: the item on top is replaced by its serialized form.
RuntimeSerialize ==
    /\ serIp = 1
    /\ ~serFailed
    /\ \E data \in SerializeItem(Top(serStack)) :
          serStack' = Append(Pop(serStack), BytesItem(data))
    /\ serIp' = 2
    /\ UNCHANGED <<serItem, serFailed, coreVars, itemVars, dbftVars, rpcVars, lateVars>>

\* Neo.Runtime.Deserialize: the byte array on top is replaced by the item it
\* holds; the VM fails when it holds none.
RuntimeDeserialize ==
    /\ serIp = 2
    /\ ~serFailed
    /\ LET r == DeserializeItem(Top(serStack).bytes)
       IN  IF r.ok
           THEN serStack' = Append(Pop(serStack), r.item) /\ serFailed' = FALSE
           ELSE serFailed' = TRUE /\ UNCHANGED serStack
    /\ serIp' = 3
    /\ UNCHANGED <<serItem, coreVars, itemVars, dbftVars, rpcVars, lateVars>>

NextSerialize == RuntimeSerialize \/ RuntimeDeserialize

SpecSerialize == InitSerialize /\ [][NextSerialize]_vars

\* ---------------------------------------------- compound items: the program

\* The items the stacks and the compound items they lead to hold.
LiveCount(h, es, as) ==
    Len(es) + Len(as)
    + SumOver1([r \in RefIDs |->
                  IF r \in Live(h, es, as) THEN Len(Contents(h[r])) ELSE 0],
               MaxRefs)

\* A new VM with the stacks of a test.
InitItems ==
    /\ CoreIdle
    /\ SerIdle
    /\ DbftIdle
    /\ RpcIdle
    /\ LateIdle
    /\ \E l \in ItemLoads :
          /\ itemEstack = l.es
          /\ itemAstack = l.as
          /\ heap = l.heap
          /\ vmSize = LiveCount(l.heap, l.es, l.as)
    /\ itemState = "NONE"
    /\ itemSteps = 0
    /\ itemOp = ""
    /\ copies = {}

\* The struct APPEND has stored in its target, if it stored one.
StoredStruct(op, es, h1) ==
    IF op = "APPEND" /\ Len(es) >= 2
       /\ es[Len(es) - 1].k = "Ref"
       /\ h1[es[Len(es) - 1].v].elems # <<>>
       /\ IsRefTo(h1, Top(h1[es[Len(es) - 1].v].elems), {"Struct"})
    THEN {Top(h1[es[Len(es) - 1].v].elems).v}
    ELSE {}

\* v.Step() on the next instruction of the program, whichever it is.
ItemStep ==
    /\ itemState = "NONE"
    /\ itemSteps < MaxItemSteps
    /\ \E op \in ItemOpcodes :
          \E r \in itemStep(op, [es |-> itemEstack, as |-> itemAstack,
                                 heap |-> heap, size |-> vmSize]) :
             /\ itemState' = r.state
             /\ itemEstack' = r.es
             /\ itemAstack' = r.as
             /\ heap' = r.heap
             /\ vmSize' = r.size
             /\ itemOp' = op
             /\ copies' =
                  {q \in copies \cup
                         (IF r.state = "NONE"
                          THEN StoredStruct(op, itemEstack, r.heap) ELSE {}) :
                     r.heap[q].t # "Free"}
    /\ itemSteps' = itemSteps + 1
    /\ UNCHANGED <<coreVars, serVars, dbftVars, rpcVars, lateVars>>

\* RET at the end of the program.
ItemRet ==
    /\ itemState = "NONE"
    /\ itemState' = "HALT"
    /\ itemOp' = "RET"
    /\ UNCHANGED <<itemEstack, itemAstack, heap, vmSize, itemSteps, copies,
                   coreVars, serVars, dbftVars, rpcVars, lateVars>>

NextItems == ItemStep \/ ItemRet

SpecItems == InitItems /\ [][NextItems]_vars

\* ------------------------------------------ compound items: limits, identity

\* The instructions of the tests on the size of containers, on EQUAL and on
\* NEWARRAY and NEWSTRUCT applied to a container.
ArrayOpcodes ==
    {"PUSH0", "PUSH1", "DUP", "DROP", "FROMALTSTACK", "NEWARRAY", "NEWSTRUCT",
     "NEWMAP", "PACK", "APPEND", "SETITEM", "EQUAL", "REVERSEITEMS"}

\* A map of n entries, i -> i.
BigMap(n) == MapObj({Entry(IntV(i), IntV(i)) : i \in 0 .. n - 1})

\* The stacks and the compound items these tests start from.
ArrayLoads ==
    {Load(<<IntV(n)>>, <<>>, <<>>) : n \in MaxArraySize - 1 .. MaxArraySize + 1}
    \cup {Load([i \in 1 .. MaxArraySize + 2 |->
                  IF i = MaxArraySize + 2 THEN IntV(n) ELSE IntV(0)],
               <<>>, <<>>) : n \in MaxArraySize .. MaxArraySize + 1}
    \cup {Load(<<RefV(1), IntV(key), IntV(0)>>, <<>>, <<BigMap(MaxArraySize)>>) :
            key \in {0, MaxArraySize}}
    \cup {Load(<<>>, <<>>, <<>>),
          Load(<<IntV(1)>>, <<>>, <<>>),
          Load(<<IntV(5), IntV(5)>>, <<>>, <<>>),
          Load(<<BytesV(<<16>>), IntV(16)>>, <<>>, <<>>),
          Load(<<BytesV(<<16, 0>>), IntV(16)>>, <<>>, <<>>),
          Load(<<RefV(1)>>, <<>>, <<MapObj({})>>),
          Load(<<RefV(1), RefV(2)>>, <<>>, <<ArrayObj(<<>>), ArrayObj(<<>>)>>),
          Load(<<RefV(1), RefV(2)>>, <<>>, <<MapObj({}), MapObj({})>>),
          Load(<<RefV(1)>>, <<RefV(1)>>, <<ArrayObj(<<BoolV(FALSE)>>)>>),
          Load(<<RefV(1)>>, <<RefV(1)>>, <<StructObj(<<BoolV(FALSE)>>)>>),
          Load(<<RefV(1), RefV(1)>>, <<>>, <<ArrayObj(<<IntV(1), IntV(2)>>)>>),
          Load(<<RefV(1), RefV(1)>>, <<>>, <<StructObj(<<IntV(1), IntV(2)>>)>>)}

\* A new VM with the stacks of a test.
InitArrays ==
    /\ CoreIdle
    /\ SerIdle
    /\ DbftIdle
    /\ RpcIdle
    /\ LateIdle
    /\ \E l \in ArrayLoads :
          /\ itemEstack = l.es
          /\ itemAstack = l.as
          /\ heap = l.heap
          /\ vmSize = LiveCount(l.heap, l.es, l.as)
    /\ itemState = "NONE"
    /\ itemSteps = 0
    /\ itemOp = ""
    /\ copies = {}

\* v.Step() on the next instruction of the program, whichever it is.
ArrayStep ==
    /\ itemState = "NONE"
    /\ itemSteps < MaxItemSteps
    /\ \E op \in ArrayOpcodes :
          \E r \in itemStep(op, [es |-> itemEstack, as |-> itemAstack,
                                 heap |-> heap, size |-> vmSize]) :
             /\ itemState' = r.state
             /\ itemEstack' = r.es
             /\ itemAstack' = r.as
             /\ heap' = r.heap
             /\ vmSize' = r.size
             /\ itemOp' = op
    /\ itemSteps' = itemSteps + 1
    /\ UNCHANGED <<copies, coreVars, serVars, dbftVars, rpcVars, lateVars>>

NextArrays == ArrayStep \/ ItemRet

SpecArrays == InitArrays /\ [][NextArrays]_vars

\* ------------------------------------------- serialization: what is refused

\* The items of the tests that Runtime.Serialize is run on: an array that
\* holds itself, a map and a struct that do, the same integer twice in an
\* array, interop handles, and items that hold others.
SerializeLoads ==
    {Load(<<RefV(1)>>, <<>>, <<ArrayObj(<<BoolV(FALSE), RefV(1)>>)>>),
     Load(<<RefV(1)>>, <<>>, <<MapObj({Entry(IntV(0), RefV(1))})>>),
     Load(<<RefV(1)>>, <<>>, <<ArrayObj(<<RefV(2)>>), StructObj(<<RefV(1)>>)>>),
     Load(<<RefV(1)>>, <<>>, <<ArrayObj(<<RefV(2)>>), ArrayObj(<<IntV(1), RefV(2)>>)>>),
     Load(<<RefV(1)>>, <<>>, <<ArrayObj(<<IntV(2), IntV(2)>>)>>),
     Load(<<RefV(1)>>, <<>>, <<StructObj(<<BoolV(TRUE), BoolV(TRUE)>>)>>),
     Load(<<RefV(1)>>, <<>>, <<ArrayObj(<<BoolV(TRUE), IntV(123), RefV(2)>>),
                              MapObj({})>>),
     Load(<<RefV(1)>>, <<>>, <<ArrayObj(<<RefV(2), RefV(2)>>), ArrayObj(<<>>)>>),
     Load(<<RefV(1)>>, <<>>, <<ArrayObj(<<InteropV>>)>>),
     Load(<<InteropV>>, <<>>, <<>>),
     Load(<<IntV(123)>>, <<>>, <<>>),
     Load(<<BytesV(<<1, 2, 3>>)>>, <<>>, <<>>),
     Load(<<>>, <<>>, <<>>)}

\* Bytes that are the type of no item.
UnknownTypes == {0, 1, 255}

\* load(getSerializeProg()) with an item pushed, or load of the Deserialize
\* program with data pushed whose first byte may have been overwritten.
InitSerializeBad ==
    /\ CoreIdle
    /\ DbftIdle
    /\ RpcIdle
    /\ LateIdle
    /\ \/ /\ \E l \in SerializeLoads :
               /\ itemEstack = l.es
               /\ itemAstack = l.as
               /\ heap = l.heap
               /\ vmSize = LiveCount(l.heap, l.es, l.as)
          /\ itemState = "NONE"
          /\ itemSteps = 0
          /\ itemOp = ""
          /\ copies = {}
          /\ SerIdle
       \/ /\ ItemIdle
          /\ serItem \in SerItems
          /\ \E data \in SerializeItem(serItem) :
                \E b \in {data[1]} \cup UnknownTypes :
                   serStack = <<BytesItem([data EXCEPT ![1] = b])>>
          /\ serIp = 2
          /\ serFailed = FALSE

\* Neo.Runtime.Serialize on the item on top of the evaluation stack.
RuntimeSerializeItem ==
    /\ itemState = "NONE"
    /\ itemOp = ""
    /\ serIp = 0
    /\ itemOp' = "Neo.Runtime.Serialize"
    /\ itemSteps' = itemSteps + 1
    /\ IF itemEstack = <<>>
       THEN itemState' = "FAULT" /\ UNCHANGED <<itemEstack, heap, vmSize>>
       ELSE \E r \in serializeItem(heap, Top(itemEstack)) :
               IF ~r.ok
               THEN itemState' = "FAULT" /\ UNCHANGED <<itemEstack, heap, vmSize>>
               ELSE LET out == Releasing(Append(Pop(itemEstack), BytesV(r.data)),
                                         itemAstack, heap, vmSize + 1,
                                         <<Top(itemEstack)>>)
                    IN  /\ itemState' = "NONE"
                        /\ itemEstack' = out.es
                        /\ heap' = out.heap
                        /\ vmSize' = out.size
    /\ UNCHANGED <<itemAstack, copies, coreVars, serVars, dbftVars, rpcVars,
                   lateVars>>

NextSerializeBad == RuntimeSerializeItem \/ RuntimeDeserialize

SpecSerializeBad == InitSerializeBad /\ [][NextSerializeBad]_vars

\* ------------------------------------------------ consensus: the protocol

\* The replicas at (height, view 0). F of them are faulty: a faulty validator
\* may also send what an honest one would, so fewer faults are included.
InitDBFT ==
    /\ CoreIdle
    /\ SerIdle
    /\ ItemIdle
    /\ RpcIdle
    /\ LateIdle
    /\ faulty \in {fs \in SUBSET Validators : Cardinality(fs) = FaultyLimit}
    /\ view = [r \in Validators |-> 0]
    /\ phase = [r \in Validators |-> startPhase(r, 0)]
    /\ accepted = [r \in Validators |-> NoBlock]
    /\ commit = [r \in Validators |-> NoBlock]
    /\ block = [r \in Validators |-> NoBlock]
    /\ network = EmptyBag
    /\ redelivered = FALSE

Honest(r) == r \in Validators \ faulty

\* The payloads of the faulty validators that reach a replica with the
\* payload it handles (none when byz is false): those of type t for view v
\* and block b.
FromFaulty(byz, t, v, b) ==
    IF byz
    THEN Matching(FaultyPayloads(faulty), {t}, {v}, b)
    ELSE {}

\* An honest replica broadcasts the payloads ms; the payloads of faulty
\* validators that have reached a replica are on the network from then on (a
\* RecoveryMessage passes them on).
Broadcast(ms, relayed) ==
    network' = (network (+) SetToBag(ms))
               (+) SetToBag(relayed \ BagToSet(network))

\* The ChangeView payloads for view w that the network delivers once more
\* with the payload a replica handles: at most MaxDup of them.
Redeliveries(w) ==
    {ds \in SUBSET Matching(BagToSet(network), {"ChangeView"}, {w}, NoBlock) :
        Cardinality(ds) <= MaxDup}

\* What has arrived at the replica: the network and the second copies.
Arrived(ds) == network (+) SetToBag(ds)

Sent(m) == BagIn(m, network)

Running(r) == Honest(r) /\ phase[r] # "BLOCK_SENT"

\* The primary builds a block and broadcasts its PrepareRequest.
SendPrepareRequest(r) ==
    /\ Running(r)
    /\ phase[r] = "INITIAL"
    /\ r = Primary(view[r])
    /\ Broadcast({Payload("PrepareRequest", view[r], r, view[r])}, {})
    /\ accepted' = [accepted EXCEPT ![r] = view[r]]
    /\ phase' = [phase EXCEPT ![r] = "PRIMARY_SENT"]
    /\ redelivered' = FALSE
    /\ UNCHANGED <<faulty, view, commit, block, coreVars, serVars, itemVars, rpcVars, lateVars>>

\* A backup verifies the request of the primary of its view and broadcasts
\* its PrepareResponse.
OnPrepareRequest(r, byz) ==
    /\ Running(r)
    /\ phase[r] = "BACKUP_WAITING"
    /\ \E b \in Blocks :
          LET m == Payload("PrepareRequest", view[r], Primary(view[r]), b)
          IN  /\ IF byz
                 THEN m \in FromFaulty(byz, "PrepareRequest", view[r], b)
                 ELSE Sent(m)
              /\ accepted' = [accepted EXCEPT ![r] = b]
              /\ Broadcast({Payload("PrepareResponse", view[r], r, b)},
                           IF byz THEN {m} ELSE {})
    /\ phase' = [phase EXCEPT ![r] = "RESPONSE_SENT"]
    /\ redelivered' = FALSE
    /\ UNCHANGED <<faulty, view, commit, block, coreVars, serVars, itemVars, rpcVars, lateVars>>

\* The validators whose preparation for block b at view v has arrived.
Preparations(v, b, byz) ==
    countSenders(network, FromFaulty(byz, "PrepareResponse", v, b),
                 {"PrepareRequest", "PrepareResponse"}, {v}, b)

\* Upon M matching preparations the replica signs the header and broadcasts
\* its Commit, unless it has signed another block before.
OnPreparations(r, byz) ==
    /\ Running(r)
    /\ phase[r] \in {"PRIMARY_SENT", "RESPONSE_SENT"}
    /\ hasQuorum(Preparations(view[r], accepted[r], byz))
    /\ redelivered' = FALSE
    /\ canCommit(commit[r], accepted[r])
    /\ Broadcast({Payload("Commit", view[r], r, accepted[r])},
                 FromFaulty(byz, "PrepareResponse", view[r], accepted[r]))
    /\ commit' = [commit EXCEPT ![r] = accepted[r]]
    /\ phase' = [phase EXCEPT ![r] = "COMMIT_SENT"]
    /\ UNCHANGED <<faulty, view, accepted, block, coreVars, serVars, itemVars, rpcVars, lateVars>>

\* The validators whose Commit for block b has arrived, at whatever view
\* they signed it (a faulty one at view 0, say).
Commits(b, byz) ==
    countSenders(network, FromFaulty(byz, "Commit", 0, b), {"Commit"}, Views,
                 b)

\* Upon M matching commits the block is assembled and handed to the chain.
OnCommits(r, byz) ==
    /\ Running(r)
    /\ \E b \in Blocks :
          /\ hasQuorum(Commits(b, byz))
          /\ block' = [block EXCEPT ![r] = b]
          /\ Broadcast({}, FromFaulty(byz, "Commit", 0, b))
    /\ phase' = [phase EXCEPT ![r] = "BLOCK_SENT"]
    /\ redelivered' = FALSE
    /\ UNCHANGED <<faulty, view, accepted, commit, coreVars, serVars,
                   itemVars, rpcVars, lateVars>>

\* The timer of the view expires: the replica asks for the next view.
Timeout(r) ==
    /\ Running(r)
    /\ view[r] < MaxView
    /\ ~Sent(Payload("ChangeView", view[r] + 1, r, NoBlock))
    /\ Broadcast({Payload("ChangeView", view[r] + 1, r, NoBlock)}, {})
    /\ redelivered' = FALSE
    /\ UNCHANGED <<faulty, view, phase, accepted, commit, block, coreVars,
                   serVars, itemVars, rpcVars, lateVars>>

\* The validators whose ChangeView for view w has arrived.
ChangeViews(w, byz, ds) ==
    countSenders(Arrived(ds), FromFaulty(byz, "ChangeView", w, NoBlock),
                 {"ChangeView"}, {w}, NoBlock)

\* The replica moves to view w and resets its phase state; its commit stays.
MoveTo(r, w) ==
    /\ view' = [view EXCEPT ![r] = w]
    /\ phase' = [phase EXCEPT ![r] = startPhase(r, w)]
    /\ accepted' = [accepted EXCEPT ![r] = resetPhase(r, w, accepted[r])]

\* M ChangeView payloads for the next view have been observed.
OnChangeView(r, byz) ==
    /\ Running(r)
    /\ view[r] < MaxView
    /\ \E ds \in Redeliveries(view[r] + 1) :
          /\ hasQuorum(ChangeViews(view[r] + 1, byz, ds))
          /\ redelivered' = (ds # {})
    /\ MoveTo(r, view[r] + 1)
    /\ Broadcast({}, FromFaulty(byz, "ChangeView", view[r] + 1, NoBlock))
    /\ UNCHANGED <<faulty, commit, block, coreVars, serVars, itemVars, rpcVars, lateVars>>

\* A replica asks for recovery and applies the RecoveryMessage of a
\* validator that is at view w: the bundled ChangeViews take it to w when M
\* of them are there (the view is achievable). The bundled PrepareRequest,
\* PrepareResponses and Commits are payloads signed by their senders, which
\* the other handlers take up; request and answer are not kept on the network.
OnRecoveryMessage(r, byz) ==
    /\ Running(r)
    /\ \E w \in Views :
          /\ w > view[r]
          /\ \E s \in Validators \ {r} :
                \/ byz /\ s \in faulty
                \/ Honest(s) /\ view[s] = w
          /\ \E ds \in Redeliveries(w) :
                /\ hasQuorum(ChangeViews(w, byz, ds))
                /\ redelivered' = (ds # {})
          /\ MoveTo(r, w)
          /\ Broadcast({}, FromFaulty(byz, "ChangeView", w, NoBlock))
    /\ UNCHANGED <<faulty, commit, block, coreVars, serVars, itemVars, rpcVars, lateVars>>

ReplicaStep(r, byz) ==
    \/ OnPrepareRequest(r, byz)
    \/ OnPreparations(r, byz)
    \/ OnCommits(r, byz)
    \/ OnChangeView(r, byz)
    \/ OnRecoveryMessage(r, byz)

NextDBFT ==
    \/ \E r \in Validators : SendPrepareRequest(r)
    \/ \E r \in Validators : \E byz \in BOOLEAN : OnPrepareRequest(r, byz)
    \/ \E r \in Validators : \E byz \in BOOLEAN : OnPreparations(r, byz)
    \/ \E r \in Validators : \E byz \in BOOLEAN : OnCommits(r, byz)
    \/ \E r \in Validators : Timeout(r)
    \/ \E r \in Validators : \E byz \in BOOLEAN : OnChangeView(r, byz)
    \/ \E r \in Validators : \E byz \in BOOLEAN : OnRecoveryMessage(r, byz)

SpecDBFT == InitDBFT /\ [][NextDBFT]_vars

\* Delivery resumes and timers run: a payload that is on the network reaches
\* every honest replica, which then handles it, and the timer of a replica
\* that waits expires. Nothing is promised of what the faulty validators
\* send.
FairDBFT ==
    \A r \in Validators :
        /\ WF_vars(SendPrepareRequest(r))
        /\ WF_vars(ReplicaStep(r, FALSE))
        /\ WF_vars(Timeout(r))

SpecDBFTFair == InitDBFT /\ [][NextDBFT]_vars /\ FairDBFT

\* A block is committed at the height.
Decided == \E r \in Validators \ faulty : block[r] # NoBlock

\* ---------------------------------------------------- RPC client: the calls

\* A node and a new client for its endpoint.
InitRPC ==
    /\ CoreIdle
    /\ SerIdle
    /\ ItemIdle
    /\ DbftIdle
    /\ LateIdle
    /\ nodeBlockCount \in 0 .. MaxBlockCount
    /\ nodeValidators \in 1 .. MaxValidatorsCount
    /\ rpcPc = "idle"
    /\ rpcBlockCount = 0
    /\ rpcCache = EmptyCache
    /\ getBlockCountCalled = 0
    /\ getValidatorsCalled = 0
    /\ validUntilBlock = 0
    /\ rpcErr = FALSE
    /\ rpcCalls = 0
    /\ atCall = [blockCounts |-> 0, validators |-> 0, cached |-> EmptyCache]

\* c.CalculateValidUntilBlock() is called: it asks for the block count.
CalculateValidUntilBlock ==
    /\ rpcPc = "idle"
    /\ rpcCalls < MaxCalls
    /\ rpcCalls' = rpcCalls + 1
    /\ rpcPc' = "getblockcount"
    /\ rpcErr' = FALSE
    /\ atCall' = [blockCounts |-> getBlockCountCalled,
                  validators |-> getValidatorsCalled, cached |-> rpcCache]
    /\ UNCHANGED <<nodeBlockCount, nodeValidators, rpcBlockCount, rpcCache,
                   getBlockCountCalled, getValidatorsCalled, validUntilBlock,
                   coreVars, serVars, itemVars, dbftVars, lateVars>>

\* The node serves getblockcount (or the request fails); the client goes on
\* with the cached validator count or asks for the validators.
GetBlockCount(ok) ==
    /\ rpcPc = "getblockcount"
    /\ getBlockCountCalled' = getBlockCountCalled + 1
    /\ IF ~ok
       THEN /\ rpcErr' = TRUE
            /\ rpcPc' = "idle"
            /\ validUntilBlock' = 0
            /\ UNCHANGED rpcBlockCount
       ELSE /\ rpcErr' = FALSE
            /\ rpcBlockCount' = nodeBlockCount
            /\ IF needValidators(rpcCache)
               THEN rpcPc' = "getvalidators" /\ UNCHANGED validUntilBlock
               ELSE /\ rpcPc' = "idle"
                    /\ validUntilBlock' =
                         validUntil(nodeBlockCount, rpcCache.validatorsCount)
    /\ UNCHANGED <<nodeBlockCount, nodeValidators, rpcCache,
                   getValidatorsCalled, rpcCalls, atCall, coreVars, serVars,
                   itemVars, dbftVars, lateVars>>

\* The node serves getvalidators (or the request fails); the client keeps
\* the count and returns.
GetValidators(ok) ==
    /\ rpcPc = "getvalidators"
    /\ getValidatorsCalled' = getValidatorsCalled + 1
    /\ rpcPc' = "idle"
    /\ IF ~ok
       THEN /\ rpcErr' = TRUE
            /\ validUntilBlock' = 0
            /\ UNCHANGED rpcCache
       ELSE /\ rpcErr' = FALSE
            /\ rpcCache' = storeValidators(rpcCache, nodeValidators)
            /\ validUntilBlock' = validUntil(rpcBlockCount, nodeValidators)
    /\ UNCHANGED <<nodeBlockCount, nodeValidators, rpcBlockCount,
                   getBlockCountCalled, rpcCalls, atCall, coreVars, serVars,
                   itemVars, dbftVars, lateVars>>

\* The node adds a block.
NodeAddBlock ==
    /\ nodeBlockCount < MaxBlockCount
    /\ nodeBlockCount' = nodeBlockCount + 1
    /\ UNCHANGED <<nodeValidators, rpcPc, rpcBlockCount, rpcCache,
                   getBlockCountCalled, getValidatorsCalled, validUntilBlock,
                   rpcErr, rpcCalls, atCall, coreVars, serVars, itemVars,
                   dbftVars, lateVars>>

\* The validators of the node change.
NodeValidatorsChange ==
    /\ \E n \in 1 .. MaxValidatorsCount :
          n # nodeValidators /\ nodeValidators' = n
    /\ UNCHANGED <<nodeBlockCount, rpcPc, rpcBlockCount, rpcCache,
                   getBlockCountCalled, getValidatorsCalled, validUntilBlock,
                   rpcErr, rpcCalls, atCall, coreVars, serVars, itemVars,
                   dbftVars, lateVars>>

NextRPC ==
    \/ CalculateValidUntilBlock
    \/ \E ok \in BOOLEAN : GetBlockCount(ok)
    \/ \E ok \in BOOLEAN : GetValidators(ok)
    \/ NodeAddBlock
    \/ NodeValidatorsChange

SpecRPC == InitRPC /\ [][NextRPC]_vars

\* ------------------------------------------------- control flow: the runs

\* The stacks the jump tests start from: up to two primitive items.
CtlItems == {BoolV(TRUE), BoolV(FALSE), IntV(-1), IntV(0), IntV(1)}
JmpStacks ==
    {<<>>} \cup {<<x>> : x \in CtlItems}
    \cup {<<x, y>> : x \in CtlItems, y \in CtlItems}

\* The getters of the APPCALL tests: one hash has a script, DEPTH or a call
\* of itself.
Getters ==
    {{[hash |-> h, script |-> makeProgram(<<"DEPTH">>), dyn |-> TRUE]} :
        h \in CtlHashes}
    \cup {{[hash |-> h,
            script |-> <<Op("APPCALL")>> \o [i \in 1 .. ScriptHashLen |-> Byte(h[i])]
                       \o <<Op("RET")>>,
            dyn |-> FALSE]} : h \in CtlHashes \ {ZeroHash}}

AppCallStacks ==
    {<<IntV(2)>>, <<IntV(42), IntV(42)>>}
    \cup {<<IntV(2), BytesV(h)>> : h \in CtlHashes}
    \cup {<<IntV(42), IntV(42), BytesV(h)>> : h \in CtlHashes}

\* The test: its kind, the opcode or count or operand, the items pushed.
CtlTest(kind, op, n, operand, items, dyn) ==
    [kind |-> kind, op |-> op, n |-> n, operand |-> operand, items |-> items,
     dyn |-> dyn]

CtlTests ==
    {CtlTest("jmp", op, 0, <<>>, items, FALSE) :
        op \in ShortJumps \cup LongJumps, items \in JmpStacks}
    \cup {CtlTest("call", "CALL", n, <<>>, <<>>, FALSE) :
            n \in 0 .. MaxInvocationStackSize + 1}
    \cup {CtlTest("appcall", "APPCALL", 0, h, items, dyn) :
            h \in CtlHashes, items \in AppCallStacks, dyn \in BOOLEAN}

ScriptOf(t) ==
    CASE t.kind = "jmp" -> getJMPProgram(t.op)
      [] t.kind = "call" -> callNTimes(t.n)
      [] OTHER -> <<Op("APPCALL")>>
                  \o [i \in 1 .. ScriptHashLen |-> Byte(t.operand[i])]
                  \o <<Op("RET")>>

\* load(prog), the items of the test pushed, the getter and the flag set.
InitControl ==
    /\ CoreIdle
    /\ SerIdle
    /\ ItemIdle
    /\ DbftIdle
    /\ RpcIdle
    /\ PrIdle
    /\ \E t \in CtlTests :
          /\ ctlTest = t
          /\ istack = <<Context(ScriptOf(t), 0, t.dyn)>>
          /\ ctlEstack = t.items
          /\ getScript \in (IF t.kind = "appcall" THEN Getters ELSE {{}})
    /\ ctlState = "NONE"
    /\ ctlAstack = <<>>
    /\ ctlOp = ""

CtlConfig == Ctl(ctlState, istack, ctlEstack, ctlAstack)

\* The opcode the top context is at.
CtlNextOp ==
    LET ctx == Top(istack)
    IN  IF ctx.ip >= Len(ctx.script) THEN "RET" ELSE ctx.script[ctx.ip + 1].op

\* v.Step() of v.Run().
CtlStep ==
    /\ ctlState = "NONE"
    /\ istack # <<>>
    /\ LET r == ctlExecute(CtlConfig, getScript)
       IN  /\ ctlState' = r.state
           /\ istack' = r.istack
           /\ ctlEstack' = r.es
           /\ ctlAstack' = r.as
    /\ ctlOp' = CtlNextOp
    /\ UNCHANGED <<getScript, ctlTest, coreVars, serVars, itemVars, dbftVars,
                   rpcVars, prVars>>

NextControl == CtlStep

SpecControl == InitControl /\ [][NextControl]_vars

\* ------------------------------------- prepareRequest: the timestamp calls

\* The words the calls are made with: the values around each multiple of
\* the factor, the small values and the largest word.
Words ==
    {w \in {q * TimestampScale + r :
              q \in 0 .. 3, r \in {0, 1, 2, 3, TimestampScale - 1}} :
        w < Uint64}
    \cup {Uint64 - 1}

\* A prepareRequest as new(prepareRequest) leaves it.
InitPrepareRequest ==
    /\ CoreIdle
    /\ SerIdle
    /\ ItemIdle
    /\ DbftIdle
    /\ RpcIdle
    /\ CtlIdle
    /\ PrIdle

\* DecodeBinary: the timestamp is any word read from the payload.
PrDecodeBinary ==
    /\ \E w \in Words : timestamp' = w
    /\ prOp' = "DecodeBinary"
    /\ UNCHANGED <<tsArg, tsRet, coreVars, serVars, itemVars, dbftVars,
                   rpcVars, ctlVars>>

\* p.SetTimestamp(ts)
PrSetTimestamp ==
    /\ \E ts \in Words :
          /\ tsArg' = ts
          /\ timestamp' = SetTimestamp(ts)
    /\ prOp' = "SetTimestamp"
    /\ UNCHANGED <<tsRet, coreVars, serVars, itemVars, dbftVars, rpcVars,
                   ctlVars>>

\* p.Timestamp(); the call is marked when it follows SetTimestamp.
PrTimestamp ==
    /\ tsRet' = Timestamp(timestamp)
    /\ prOp' = (IF prOp = "SetTimestamp" THEN "SetTimestamp;Timestamp"
                ELSE "Timestamp")
    /\ UNCHANGED <<timestamp, tsArg, coreVars, serVars, itemVars, dbftVars,
                   rpcVars, ctlVars>>

\* p.SetTimestamp(p.Timestamp())
PrSetTimestampOfTimestamp ==
    /\ tsRet' = Timestamp(timestamp)
    /\ tsArg' = tsRet'
    /\ timestamp' = SetTimestamp(tsRet')
    /\ prOp' = "SetTimestamp(Timestamp)"
    /\ UNCHANGED <<coreVars, serVars, itemVars, dbftVars, rpcVars, ctlVars>>

NextPrepareRequest ==
    \/ PrDecodeBinary
    \/ PrSetTimestamp
    \/ PrTimestamp
    \/ PrSetTimestampOfTimestamp

SpecPrepareRequest == InitPrepareRequest /\ [][NextPrepareRequest]_vars

\* =================================================================== claims

\* A further transaction of the block can be processed.
Applying == inBlock /\ NextHash(cache) < first + MaxTx

BlockIndex == height + 1

Layers == {store, cache}

\* The outputs a layer knows: (hash, index) pairs.
OutputsOf(dao) ==
    {Input(h, i) : h \in {g \in Hashes : dao.coins[g].exists}, i \in Indexes}
    \cap {x \in [prevHash : Hashes, prevIndex : Indexes] :
            x.prevIndex < Len(dao.coins[x.prevHash].states)}

CoinOf(dao, x) == dao.coins[x.prevHash].states[x.prevIndex + 1]

InputLists(dao) == UNION {[1 .. n -> Refs(dao)] : n \in 0 .. MaxTxSize}

\* ----------------------------------------------------------------------- C1

\* Input k of the list cannot be spent in the layer: its index is outside
\* the output vector of its transaction, the output is already spent, or an
\* earlier input of the list names the same output.
BadInput(ins, k, dao) ==
    LET c == dao.coins[ins[k].prevHash]
    IN  /\ c.exists
        /\ \/ Len(c.states) <= ins[k].prevIndex
           \/ c.states[ins[k].prevIndex + 1].spent
           \/ \E j \in 1 .. k - 1 : ins[j] = ins[k]

\* C1: processInputs returns an error for every input list that holds an
\* input whose PrevIndex is outside the referenced output vector, whose
\* output has the spent bit set (by an earlier block or by an earlier
\* transaction of the same block), or that repeats an earlier input.
C1_BadInputRejected ==
    Applying =>
        \A ins \in InputLists(cache) :
            (\E k \in 1 .. Len(ins) : BadInput(ins, k, cache))
                => processInputs(ins, BlockIndex, cache).err # NoErr

\* An output spent by an earlier transaction of the block being applied,
\* which processInputs refuses to spend again.
C1_Witness ==
    /\ Applying
    /\ blockTxs >= 1
    /\ \E x \in OutputsOf(cache) :
          /\ CoinOf(cache, x).spent
          /\ ~CoinOf(store, x).spent
          /\ processInputs(<<x>>, BlockIndex, cache).err = "double spend"

\* ----------------------------------------------------------------------- C2

\* C2: in the persistent store and in the block cache, every output whose
\* spent bit is set is named by the inputs of exactly one applied transaction.
C2_SpentByExactlyOne ==
    \A dao \in Layers : \A x \in OutputsOf(dao) :
        CoinOf(dao, x).spent => dao.hist.spentRefs[x.prevHash][x.prevIndex] = 1

\* The second genesis output has been spent by a persisted block.
C2_Witness ==
    /\ CoinOf(store, Input(GenesisHash, 1)).spent
    /\ store.hist.spentRefs[GenesisHash][1] = 1

\* ----------------------------------------------------------------------- C3

\* The unspent outputs of the layer that pay asset a to account s.
UnspentOf(dao, s, a) ==
    {x \in OutputsOf(dao) :
        /\ ~CoinOf(dao, x).spent
        /\ CoinOf(dao, x).scriptHash = s
        /\ CoinOf(dao, x).asset = a}

\* C3: after any sequence of applied transactions the balance list of every
\* account and asset holds exactly the unspent outputs of that asset paying
\* to that account, each once and with its amount.
C3_BalancesAreUnspentOutputs ==
    \A dao \in Layers : \A s \in ScriptHashes : \A a \in Assets :
        LET bal == dao.accounts[s].balances[a]
        IN  /\ \A k \in 1 .. Len(bal) :
                  /\ Input(bal[k].tx, bal[k].index) \in UnspentOf(dao, s, a)
                  /\ bal[k].value =
                        CoinOf(dao, Input(bal[k].tx, bal[k].index)).amount
            /\ \A x \in UnspentOf(dao, s, a) :
                  FindEntry(bal, x.prevHash, x.prevIndex) >= 1
            /\ \A j, k \in 1 .. Len(bal) :
                  (bal[j].tx = bal[k].tx /\ bal[j].index = bal[k].index) => j = k

\* From the genesis state, the first of the two entries of account A was
\* spent and the second one is still listed.
C3_Witness ==
    /\ first = 1
    /\ CoinOf(store, Input(GenesisHash, 0)).spent
    /\ ~CoinOf(store, Input(GenesisHash, 1)).spent
    /\ FindEntry(store.accounts["A"].balances[GoverningTokenID],
                 GenesisHash, 1) >= 1

\* ----------------------------------------------------------------------- C4

\* Every flag set in layer d is set in layer e.
FlagsKept(d, e) ==
    \A x \in OutputsOf(d) :
        /\ CoinOf(d, x).spent => CoinOf(e, x).spent
        /\ CoinOf(d, x).claimed => CoinOf(e, x).claimed

\* C4: the spent bit and the claimed bit of an output are never cleared, in
\* the persistent store by any persisted block and in the block cache by any
\* transaction of the block being applied.
C4_FlagsNeverCleared ==
    [][/\ FlagsKept(store, store')
       /\ (inBlock /\ inBlock') => FlagsKept(cache, cache')]_vars

\* An output that was spent and later claimed keeps both bits.
C4_Witness ==
    \E x \in OutputsOf(store) :
        /\ CoinOf(store, x).spent
        /\ CoinOf(store, x).claimed
        /\ store.hist.claimRefs[x.prevHash][x.prevIndex] >= 1

\* ----------------------------------------------------------------------- C5

\* C5: processTXInput on an output of the governing token appends to the
\* owner's unclaimed table exactly one UnclaimedBalance (Tx and Index of the
\* input, Start the height of the referenced transaction, End the index of
\* the spending block, Value the output amount); on an output of another
\* asset it leaves the table as it was. No other account's table changes.
C5_UnclaimedOnGoverningInput ==
    Applying =>
        \A x \in OutputsOf(cache) :
            LET unspent == cache.coins[x.prevHash]
                o == CoinOf(cache, x)
                r == processTXInput(x, unspent, BlockIndex, cache.accounts)
                before == cache.accounts[o.scriptHash].unclaimed
                after == r.accounts[o.scriptHash].unclaimed
            IN  r.err = NoErr =>
                  /\ (o.asset = GoverningTokenID) =>
                        after = Append(before,
                                  [tx |-> x.prevHash, index |-> x.prevIndex,
                                   start |-> unspent.height, end |-> BlockIndex,
                                   value |-> o.amount])
                  /\ (o.asset # GoverningTokenID) => after = before
                  /\ \A s \in ScriptHashes \ {o.scriptHash} :
                        r.accounts[s].unclaimed = cache.accounts[s].unclaimed

\* The second genesis output (governing token) and an output of the utility
\* token have both been spent, and only the former left an unclaimed entry.
C5_Witness ==
    /\ \E x \in OutputsOf(store) :
          /\ CoinOf(store, x).spent
          /\ CoinOf(store, x).asset = UtilityTokenID
          /\ \A s \in ScriptHashes :
                FindEntry(store.accounts[s].unclaimed, x.prevHash, x.prevIndex) = 0
    /\ FindEntry(store.accounts["A"].unclaimed, GenesisHash, 1) >= 1

\* ----------------------------------------------------------------------- C6

\* Sum of the balance entries of asset a over all accounts of the layer.
BalanceOf(dao, s, a) ==
    LET bal == dao.accounts[s].balances[a]
    IN  SumSeq([k \in 1 .. Len(bal) |-> bal[k].value], 1)

RECURSIVE SumOver(_, _, _)
SumOver(dao, S, a) ==
    IF S = {} THEN 0
    ELSE LET s == CHOOSE x \in S : TRUE
         IN  BalanceOf(dao, s, a) + SumOver(dao, S \ {s}, a)

BalanceSum(dao, a) == SumOver(dao, ScriptHashes, a)

C7_ClaimedOnlyIfSpent ==
    \A x \in OutputsOf(cache) : CoinOf(cache, x).claimed => CoinOf(cache, x).spent

\* ----------------------------------------------------------------------- C8

\* The output was spent in the chain the run started from, so every claim
\* reference to it names a spent output.
SpentBeforeRun(x) ==
    /\ first > 1
    /\ x \in OutputsOf(AfterTransfer)
    /\ CoinOf(AfterTransfer, x).spent

\* C8 as stated, for outputs spent before the run: an output of the
\* governing token whose claimed bit is set is named by the claims of exactly
\* one ClaimTX of the chain.
C8_ClaimedByExactlyOne ==
    \A x \in OutputsOf(store) :
        (/\ CoinOf(store, x).asset = GoverningTokenID
         /\ CoinOf(store, x).claimed
         /\ SpentBeforeRun(x))
            => store.hist.claimRefs[x.prevHash][x.prevIndex] = 1

\* C8 (amended): an output of the governing token whose claimed bit is set
\* is named by the claims of at least one ClaimTX of the chain, and of
\* exactly one when strict verification is on.
C8_ClaimedByAtLeastOne ==
    \A dao \in Layers : \A x \in OutputsOf(dao) :
        (CoinOf(dao, x).asset = GoverningTokenID /\ CoinOf(dao, x).claimed)
            => /\ dao.hist.claimRefs[x.prevHash][x.prevIndex] >= 1
               /\ VerifyTransactions =>
                     dao.hist.claimRefs[x.prevHash][x.prevIndex] = 1

\* Under strict verification a spent output of the governing token has been
\* claimed by a persisted block.
C8_Witness ==
    /\ VerifyTransactions
    /\ \E x \in OutputsOf(store) :
          /\ CoinOf(store, x).asset = GoverningTokenID
          /\ CoinOf(store, x).spent
          /\ CoinOf(store, x).claimed

\* ----------------------------------------------------------------------- C9

ClaimLists(dao) == UNION {[1 .. n -> Refs(dao)] : n \in 1 .. MaxTxSize}

\* The claim lists processClaimTX can be handed: any list when blocks are
\* not verified, otherwise the lists verification lets through.
ClaimsReachable(cl) ==
    VerifyTransactions =>
        /\ Cardinality(RefsOf(cl)) = Len(cl)
        /\ \A k \in 1 .. Len(cl) : ClaimValid(cl[k], store)

\* Reference k of the list is missing, out of range or already claimed in
\* the layer, or repeats an earlier reference of the list.
InvalidClaim(cl, k, dao) ==
    \/ ClaimError(cl[k], dao) # NoErr
    \/ \E j \in 1 .. k - 1 : cl[j] = cl[k]

\* C9: when a ClaimTX names a missing, out-of-range or already claimed
\* output, processClaimTX returns the error in strict mode and returns no
\* error otherwise, leaving the flags of that output as they were.
C9_StrictDecidesClaimError ==
    Applying =>
        \A cl \in ClaimLists(cache) :
            (ClaimsReachable(cl) /\ \E k \in 1 .. Len(cl) : InvalidClaim(cl, k, cache))
                => LET r == processClaimTX(cl, cache, VerifyTransactions)
                   IN  IF VerifyTransactions
                       THEN r.err \in {"key not found", "invalid claim index",
                                       "double claim"}
                       ELSE /\ r.err = NoErr
                            /\ \A k \in 1 .. Len(cl) :
                                  (/\ cl[k] \in OutputsOf(cache)
                                   /\ ClaimError(cl[k], cache) # NoErr)
                                     => CoinOf(r.dao, cl[k]) = CoinOf(cache, cl[k])

\* In strict mode a block was refused because of a double claim.
C9_Witness == VerifyTransactions /\ lastErr = "double claim"

\* ---------------------------------------------------------------------- C10

Count(l, e) == Cardinality({k \in 1 .. Len(l) : l[k] = e})

\* C10: after processClaimTX has claimed output x, the owner's unclaimed
\* table has no entry for x, holds every other entry as often as before and
\* no new one, and the owner's balance lists are unchanged.
C10_ClaimRemovesOnlyItsEntry ==
    Applying =>
        \A x \in OutputsOf(cache) :
            (ClaimError(x, cache) = NoErr /\ ClaimsReachable(<<x>>)) =>
                LET r == processClaimTX(<<x>>, cache, VerifyTransactions)
                    owner == CoinOf(cache, x).scriptHash
                    before == cache.accounts[owner]
                    after == r.dao.accounts[owner]
                IN  (r.err = NoErr /\ CoinOf(r.dao, x).claimed) =>
                      /\ FindEntry(after.unclaimed, x.prevHash, x.prevIndex) = 0
                      /\ \A e \in RefsOf(before.unclaimed) :
                            (e.tx # x.prevHash \/ e.index # x.prevIndex)
                                => Count(after.unclaimed, e) = Count(before.unclaimed, e)
                      /\ RefsOf(after.unclaimed) \subseteq RefsOf(before.unclaimed)
                      /\ after.balances = before.balances

\* Account A has spent both genesis outputs; the first was claimed, and the
\* entry of the second is still in its unclaimed table.
C10_Witness ==
    /\ CoinOf(store, Input(GenesisHash, 0)).claimed
    /\ CoinOf(store, Input(GenesisHash, 0)).spent
    /\ FindEntry(store.accounts["A"].unclaimed, GenesisHash, 0) = 0
    /\ FindEntry(store.accounts["A"].unclaimed, GenesisHash, 1) >= 1

\* ----------------------------------------------------------------------- C17

\* C17: a step in which a transaction of the block fails leaves the
\* persistent store as it was, ends the block and drops its cache, so that
\* a reader of the cache sees the store only.
C17_FailedBlockLeavesStore ==
    [][lastErr' # NoErr =>
          /\ store' = store
          /\ ~inBlock'
          /\ cache' = store']_vars

\* Under strict verification a block has failed with a double spend, which
\* only a later transaction of the block spending an output that an earlier
\* transaction of the same block had already marked can cause; the store is
\* the genesis state.
C17_Witness ==
    /\ VerifyTransactions
    /\ lastErr = "double spend"
    /\ ~inBlock
    /\ store = Genesis
    /\ cache = Genesis

\* ============================================= claims on invocations

\* A further invocation transaction of the block can be processed.
CanInvoke == invoking /\ txCount < MaxInvocations

\* ---------------------------------------------------------------------- C11

CanonicalNotes == {TransferNote(IntItem(1)), TransferNote(BytesItem(<<2>>))}

HasCanonical(notes) == \E i \in 1 .. Len(notes) : notes[i] \in CanonicalNotes

RECURSIVE PriceFrom(_, _)
PriceFrom(script, i) ==
    IF i > Len(script) THEN 0 ELSE getPrice(script[i]) + PriceFrom(script, i + 1)

ScriptPrice(script) == PriceFrom(script, 1)

Throws(script) == \E i \in 1 .. Len(script) : script[i].op = "THROW"

\* C13 as stated: whatever the free-gas limit, a script whose accumulated
\* price exceeds FreeGasLimit + tx.gas ends in FAULT.
C13_GasLimitIsFreePlusTxGas ==
    CanInvoke =>
        \A t \in InvocationTXs :
            ScriptPrice(t.script) > FreeGasLimit + t.gas
                => invocationVM(t, blockCache, storage, FreeGasLimit).state = "FAULT"

\* C13 (amended): with a positive free-gas limit the VM runs the script
\* with gas limit FreeGasLimit + tx.gas: a script priced above the sum ends
\* in FAULT and one priced up to the sum that has no failing instruction
\* ends in HALT having consumed its price. With a free-gas limit of zero
\* no limit is set: a script without failing instruction ends in HALT
\* whatever its price and tx.gas.
C13_GasLimitOnlyForPositiveFreeGas ==
    CanInvoke =>
        \A t \in InvocationTXs :
            LET v == invocationVM(t, blockCache, storage, FreeGasLimit)
                price == ScriptPrice(t.script)
            IN  /\ FreeGasLimit > 0 =>
                      /\ v.gasLimit = FreeGasLimit + t.gas
                      /\ price > FreeGasLimit + t.gas => v.state = "FAULT"
                      /\ (price <= FreeGasLimit + t.gas /\ ~Throws(t.script))
                            => (v.state = "HALT" /\ v.gasConsumed = price)
                /\ FreeGasLimit = 0 =>
                      /\ v.gasLimit = 0
                      /\ ~Throws(t.script)
                            => (v.state = "HALT" /\ v.gasConsumed = price)

\* With a free-gas limit of 1, a script of price 2 has failed on its second
\* instruction in a transaction without gas and has run to HALT in a
\* transaction with gas 1.
C13_Witness ==
    /\ FreeGasLimit = 1
    /\ txCount = 2
    /\ blockCache.aers[1].vmState = "FAULT"
    /\ blockCache.aers[1].gasConsumed = 2
    /\ blockCache.aers[2].vmState = "HALT"
    /\ blockCache.aers[2].gasConsumed = 2

\* ---------------------------------------------------------------------- C16

\* The reads of the script of t, in order, when it runs on the flat map.
flatReads(t, m, free) ==
    flatRunFrom(t.script, 1, m, 0, GasLimit(free, t.gas)).reads

\* C16: a read through the block cache and the store returns what the flat
\* map of the successful writes holds; while a script runs, its reads
\* through the transaction's cache, the block cache and the store return
\* what the flat map with the script's own earlier writes holds; and after
\* the transaction (its cache merged on HALT, dropped on FAULT) the layered
\* reads agree with the flat map that took the writes only on success.
C16_LayeredReadsAgreeWithFlatMap ==
    /\ \A k \in Keys : Read(<<blockCache.kv, storage.kv>>, k) = flat[k]
    /\ CanInvoke =>
          \A t \in InvocationTXs :
              LET v == invocationVM(t, blockCache, storage, FreeGasLimit)
                  r == processInvocationTX(t, txCount + 1, blockCache, storage,
                                           FreeGasLimit)
                  after == flatApply(t, flat, FreeGasLimit)
              IN  /\ v.estack = flatReads(t, flat, FreeGasLimit)
                  /\ \A k \in Keys :
                        /\ Read(<<v.dao, blockCache.kv, storage.kv>>, k) =
                              (IF v.dao[k] # Unset THEN v.dao[k]
                               ELSE IF blockCache.kv[k] # Unset THEN blockCache.kv[k]
                               ELSE storage.kv[k])
                        /\ Read(<<r.cache.kv, storage.kv>>, k) = after[k]
                  /\ HasFailed(v) => after = flat

\* The store holds 1 under k1 and the block cache 2: the first invocation
\* of the block read 1, the second read 2, and one of them wrote.
C16_Witness ==
    /\ txCount = 2
    /\ storage.kv["k1"] = 1
    /\ blockCache.kv["k1"] = 2
    /\ blockCache.kv["k2"] = Unset
    /\ blockCache.aers[1].stack = <<1>>
    /\ blockCache.aers[2].stack = <<2>>
    /\ flat["k1"] = 2

\* ================================================== claims on assets

\* Net issuance of asset a in an IssueTX with these results: outputs minus
\* inputs, when positive.
NetIssuance(results, a) == IF results[a] < 0 THEN 0 - results[a] ELSE 0

\* The IssueTX issues an asset the dao does not hold.
IssuesMissing(results, assets) ==
    \E a \in AssetIDs : results[a] < 0 /\ ~assets[a].exists

\* ---------------------------------------------------------------------- C14

\* C14 as stated: an IssueTX that is processed without error leaves every
\* issued asset with its available amount reduced by the network issuance.
C14_IssueReducesAvailable ==
    \A results \in IssueResults :
        LET r == processIssueTX(results, assetStates)
        IN  r.err = NoErr =>
              \A a \in AssetIDs :
                  r.assets[a].available
                      = assetStates[a].available - NetIssuance(results, a)

\* C14 (amended): processing an IssueTX fails with an error exactly when it
\* issues an asset that does not exist; otherwise it raises the available
\* amount of every asset by the network issuance of that asset (zero for an
\* asset whose outputs do not exceed its inputs) and changes nothing else of
\* the asset.
C14_IssueRaisesAvailable ==
    \A results \in IssueResults :
        LET r == processIssueTX(results, assetStates)
        IN  /\ (r.err # NoErr) <=> IssuesMissing(results, assetStates)
            /\ r.err = NoErr =>
                  \A a \in AssetIDs :
                      r.assets[a] =
                          [assetStates[a] EXCEPT
                              !.available = @ + NetIssuance(results, a)]

\* Asset 1 is registered and part of it issued, asset 2 is not registered,
\* and the last IssueTX failed for issuing it.
C14_Witness ==
    /\ assetStates[1].exists
    /\ assetStates[1].available = 1
    /\ ~assetStates[2].exists
    /\ issueErr = "issue failed"

\* ---------------------------------------------------------------------- C15

\* C15 as stated: every asset state has 0 <= available <= amount.
C15_AvailableWithinAmount ==
    \A a \in AssetIDs :
        assetStates[a].exists =>
            /\ 0 <= assetStates[a].available
            /\ assetStates[a].available <= assetStates[a].amount

\* ====================================================== claims on the VM

\* The state changes of the state machine: NONE to any state, BREAK to NONE,
\* none out of HALT or FAULT.
StateMachineStep ==
    /\ vmState = "BREAK" => vmState' \in {"BREAK", "NONE"}
    /\ vmState \in {"HALT", "FAULT"} => vmState' = vmState

\* ---------------------------------------------------------------------- C18

\* C18 as stated: the VM state only changes along NONE -> {NONE, BREAK,
\* HALT, FAULT} and BREAK -> NONE, and no operation on the VM leaves HALT or
\* FAULT.
C18_HaltAndFaultAbsorbing == [][StateMachineStep]_vars

\* C18 (amended): while a loaded program is stepped or resumed the VM state
\* only changes along NONE -> {NONE, BREAK, HALT, FAULT} and BREAK -> NONE
\* and never leaves HALT or FAULT; loading a program into a VM that has
\* reached HALT puts it back to NONE at the first instruction.
C18_OnlyLoadLeavesHalt ==
    [][IF lastOp' = "Load"
       THEN vmState = "HALT" /\ vmState' = "NONE" /\ vmIp' = 1
       ELSE StateMachineStep]_vars

\* A VM that had run its program to HALT was loaded again and the second run
\* ended in FAULT.
C18_Witness ==
    /\ runs = 2
    /\ vmState = "FAULT"

\* The VM is about to execute an instruction of its program.
AtInstruction == vmState = "NONE" /\ vmIp <= Len(prog)

\* ---------------------------------------------------------------------- C19

\* C19: in every VM state other than FAULT the stacks together hold at most
\* MaxStackSize items, and an instruction that makes the count
\* MaxStackSize + 1 puts the VM in FAULT at that instruction.
C19_StackSizeBounded ==
    /\ vmState # "FAULT" => StackSize(estack, astack) <= MaxStackSize
    /\ AtInstruction =>
         LET r == execute(prog[vmIp], estack, astack)
             s == step(prog, vmIp, estack, astack, breakPoints)
         IN  r.ok /\ StackSize(r.es, r.as) = MaxStackSize + 1 =>
                s.state = "FAULT" /\ s.ip = vmIp

\* A program of MaxStackSize pushes has run to HALT with exactly
\* MaxStackSize items on the stack.
C19_Witness ==
    /\ vmState = "HALT"
    /\ prog = [k \in 1 .. MaxStackSize |-> "PUSH1"]
    /\ StackSize(estack, astack) = MaxStackSize

\* ---------------------------------------------------------------------- C20

\* The instruction the VM is about to execute, its operands (a pushed first,
\* b last) and what executing it gives.
NextOp == prog[vmIp]
OperandA == estack[Len(estack) - 1]
OperandB == Top(estack)
Executed == execute(NextOp, estack, astack)

\* The exact result of the instruction on the operands on the stack.
ExactResult ==
    CASE NextOp = "INC" -> OperandB + 1
      [] NextOp = "DEC" -> OperandB - 1
      [] NextOp = "ADD" -> OperandA + OperandB
      [] NextOp = "SUB" -> OperandA - OperandB
      [] NextOp = "MUL" -> OperandA * OperandB
      [] NextOp = "SHL" -> OperandA * (2 ^ OperandB)

\* The instruction has its operands on the stack and an exact result.
HasResult ==
    \/ NextOp \in {"INC", "DEC"} /\ Len(estack) >= 1
    \/ NextOp \in {"ADD", "SUB", "MUL"} /\ Len(estack) >= 2
    \/ NextOp = "SHL" /\ Len(estack) >= 2 /\ OperandB >= 0

\* A two-operand instruction that checks its operands.
ChecksOperands ==
    /\ NextOp \in {"ADD", "SUB", "MUL", "DIV", "MOD", "SHR"}
    /\ Len(estack) >= 2

\* The operands the instruction reads fit and the shift, if any, is allowed.
OperandsFit ==
    /\ HasResult
    /\ checkBigIntSize(OperandB)
    /\ NextOp \notin {"INC", "DEC"} => checkBigIntSize(OperandA)
    /\ NextOp = "SHL" => OperandB <= maxSHLArg

\* A result of magnitude 2^MaxBigIntegerSizeBits - 1 from fitting operands
\* is pushed.
LargestResultSucceeds ==
    OperandsFit /\ Abs(ExactResult) = BigIntLimit - 1 =>
        Executed.ok /\ Top(Executed.es) = ExactResult

RECURSIVE PriceSumTo(_, _)
PriceSumTo(p, n) ==
    IF n = 0 THEN 0 ELSE PriceSumTo(p, n - 1) + vmPrice(p[n])

\* Instructions of the program the run has gone through; the position past
\* the last one is the RET that ends the program.
ExecutedCount == IF vmIp - 1 > Len(prog) THEN Len(prog) ELSE vmIp - 1

\* C21: the gas consumed is the sum of the prices of the instructions the
\* run has executed, zero without a price getter and zero again after a
\* load; with a gas limit set an instruction faults on gas exactly when the
\* sum with its price exceeds the limit, and is executed as without a limit
\* otherwise, so a run whose sum equals the limit reaches HALT.
C21_GasIsSumOfPricesAndLimitInclusive ==
    /\ vmState # "FAULT" =>
         gasConsumed =
            IF hasPriceGetter THEN PriceSumTo(prog, ExecutedCount) ELSE 0
    /\ lastOp = "Load" => gasConsumed = 0
    /\ vmState = "HALT" /\ vmGasLimit > 0 => gasConsumed <= vmGasLimit
    /\ vmState = "NONE" =>
         LET g == gasConsumed + charge(prog, vmIp, hasPriceGetter)
             s == gasStep(prog, vmIp, estack, astack, breakPoints,
                          hasPriceGetter, vmGasLimit, gasConsumed)
         IN  IF vmGasLimit > 0 /\ g > vmGasLimit
             THEN s.state = "FAULT" /\ s.es = estack /\ s.as = astack
             ELSE LET r == step(prog, vmIp, estack, astack, breakPoints)
                  IN  s.state = r.state /\ s.es = r.es /\ s.as = r.as

\* A VM loaded a second time has run a priced program to HALT with the gas
\* consumed equal to the largest gas limit.
C21_Witness ==
    /\ runs = 2
    /\ vmState = "HALT"
    /\ hasPriceGetter
    /\ vmGasLimit = MaxGasLimit
    /\ gasConsumed = vmGasLimit

\* ---------------------------------------------------------------------- C22

\* C22: for every item built from booleans, integers, byte arrays, arrays,
\* structs and maps, Runtime.Serialize followed by Runtime.Deserialize does
\* not fail and leaves one item, of the same type and deeply equal to the one
\* pushed; after Runtime.Serialize alone the stack holds one byte array.
C22_SerializeRoundTrip ==
    /\ ~serFailed
    /\ serIp = 2 => Len(serStack) = 1 /\ Top(serStack).t = "ByteArray"
    /\ serIp = 3 =>
         /\ Len(serStack) = 1
         /\ Top(serStack).t = serItem.t
         /\ Top(serStack) = serItem

\* An array holding an integer with a sign byte and a map of two entries has
\* gone through both syscalls.
C22_Witness ==
    /\ serIp = 3
    /\ serItem.t = "Array"
    /\ Len(serItem.items) = 2
    /\ serItem.items[1] = IntItem(128)
    /\ Cardinality(serItem.items[2].pairs) = 2
    /\ Top(serStack) = serItem

\* ---------------------------------------------------------------------- C23

\* The step is an instruction of the VM running on compound items.
ItemStepped == itemState = "NONE" /\ itemSteps' = itemSteps + 1

\* The step is an APPEND of the struct on top to an array or struct that is
\* still there after it.
AppendedStruct ==
    /\ ItemStepped
    /\ itemOp' = "APPEND"
    /\ itemState' = "NONE"
    /\ Len(itemEstack) >= 2
    /\ IsRefTo(heap, Top(itemEstack), {"Struct"})
    /\ heap'[itemEstack[Len(itemEstack) - 1].v].t # "Free"

\* C23: APPEND of a struct stores a copy: the stored item is a struct that
\* was not there before (so not the appended struct and not an earlier copy
\* of it) with the elements of the appended one; no later instruction, one
\* changing the appended struct included, changes a stored copy; the copy
\* counts, so an APPEND after which the stacks and what they lead to hold
\* more than the stack-size limit ends in FAULT.
C23_AppendStoresDeepCopy ==
    [][/\ AppendedStruct =>
            LET s == Top(itemEstack).v
                a == itemEstack[Len(itemEstack) - 1].v
                q == Top(heap'[a].elems)
            IN  /\ q.k = "Ref"
                /\ q.v # s
                /\ heap[q.v].t = "Free"
                /\ heap'[q.v].t = "Struct"
                /\ Len(heap'[q.v].elems) = Len(heap[s].elems)
                /\ \A i \in 1 .. Len(heap[s].elems) :
                      LET x == heap[s].elems[i]
                          y == heap'[q.v].elems[i]
                      IN  IF IsRefTo(heap, x, {"Struct"})
                          THEN y.k = "Ref" /\ y # x /\ heap[y.v].t = "Free"
                          ELSE y = x
       /\ \A q \in copies : heap'[q].t # "Free" => heap'[q] = heap[q]
       /\ ItemStepped /\ itemOp' = "APPEND"
            /\ LiveCount(heap', itemEstack', itemAstack') > MaxItemStackSize
          => itemState' = "FAULT"]_vars

\* An array holds two copies of the same struct, stored by two APPENDs, and
\* they are two items.
C23_Witness ==
    /\ itemState = "NONE"
    /\ itemOp = "APPEND"
    /\ \E a \in RefIDs :
          /\ heap[a].t = "Array"
          /\ Len(heap[a].elems) = 2
          /\ heap[a].elems[1] # heap[a].elems[2]
          /\ {heap[a].elems[1].v, heap[a].elems[2].v} \subseteq copies
          /\ heap[heap[a].elems[1].v] = heap[heap[a].elems[2].v]

\* ---------------------------------------------------------------------- C24

\* The VM on compound items as the next instruction finds it.
ItemConfig ==
    [es |-> itemEstack, as |-> itemAstack, heap |-> heap, size |-> vmSize]

TopIsShared(kinds) ==
    /\ Len(itemEstack) >= 1
    /\ IsRefTo(heap, Top(itemEstack), kinds)
    /\ RefsTo(heap, itemEstack, itemAstack, Top(itemEstack).v) > 1

\* The map the next SETITEM or REMOVE acts on, 0 when there is none.
MapUnder(depth) ==
    IF Len(itemEstack) >= depth
       /\ IsRefTo(heap, itemEstack[Len(itemEstack) - depth + 1], {"Map"})
       /\ itemEstack[Len(itemEstack) - depth + 2].k = "Int"
    THEN itemEstack[Len(itemEstack) - depth + 1].v
    ELSE 0

HasKey(m, key) == \E e \in heap[m].entries : e.key = key

\* C30: after every instruction the size counter is the number of values
\* on both stacks plus the number of values held by the compound items the
\* stacks lead to, each compound item counted once; a duplicated reference
\* adds 1, NEWSTRUCT on an array that stays referenced adds the struct and a
\* copy of the elements, SETITEM on a map that stays referenced adds 1 for
\* a new key only, REMOVE and CLEARITEMS take off what they remove.
C30_SizeCountsLiveItems ==
    [][/\ vmSize' = LiveCount(heap', itemEstack', itemAstack')
       /\ ItemStepped /\ itemState' = "NONE" =>
            /\ itemOp' = "DUP" => vmSize' = vmSize + 1
            /\ itemOp' = "DUPFROMALTSTACK" => vmSize' = vmSize + 1
            /\ itemOp' = "NEWSTRUCT" /\ TopIsShared({"Array"}) =>
                 vmSize' = vmSize + Len(heap[Top(itemEstack).v].elems)
            /\ itemOp' = "SETITEM" /\ MapUnder(3) # 0
                 /\ heap'[MapUnder(3)].t # "Free" =>
                 IF HasKey(MapUnder(3), itemEstack[Len(itemEstack) - 1])
                 THEN vmSize' <= vmSize - 3
                 ELSE vmSize' = vmSize - 2
            /\ itemOp' = "REMOVE" /\ MapUnder(2) # 0
                 /\ heap'[MapUnder(2)].t # "Free" =>
                 vmSize' <= vmSize - 2
                            - Cardinality({e \in heap[MapUnder(2)].entries :
                                              e.key = Top(itemEstack)})
            /\ itemOp' = "CLEARITEMS" /\ TopIsShared({"Array", "Struct", "Map"}) =>
                 vmSize' <= vmSize - 1
                            - Len(Contents(heap[Top(itemEstack).v]))]_vars

\* NEWSTRUCT on an array of two elements that the alt stack also holds has
\* left the struct with its two copied elements on the evaluation stack: six
\* items with the array and its elements.
C30_Witness ==
    /\ itemState = "NONE"
    /\ itemOp = "NEWSTRUCT"
    /\ Len(itemEstack) = 1
    /\ Len(itemAstack) = 1
    /\ IsRefTo(heap, itemEstack[1], {"Struct"})
    /\ IsRefTo(heap, itemAstack[1], {"Array"})
    /\ Len(heap[itemAstack[1].v].elems) = 2
    /\ heap[itemEstack[1].v].elems = heap[itemAstack[1].v].elems
    /\ vmSize = 2 + 2 * Len(heap[itemAstack[1].v].elems)

\* C25: with N validators of which at most F = (N-1)/3 are faulty, no two
\* honest replicas hand different blocks to the chain at the same height,
\* whatever the order of PrepareRequest, PrepareResponse, Commit, ChangeView
\* and recovery payloads and of the view changes.
C25_NoTwoBlocksAtHeight ==
    \A r, s \in Validators \ faulty :
        block[r] # NoBlock /\ block[s] # NoBlock => block[r] = block[s]

\* Two honest replicas have the block of the height, one of them after a
\* view change, while a faulty primary had another block prepared by an
\* honest replica.
C25_Witness ==
    /\ faulty # {}
    /\ \E r, s \in Validators \ faulty :
          /\ r # s
          /\ block[r] # NoBlock
          /\ block[s] # NoBlock
          /\ view[s] > 0
    /\ \E m \in BagToSet(network) :
          /\ m.type = "PrepareResponse"
          /\ m.from \notin faulty
          /\ \E r \in Validators \ faulty : block[r] \notin {NoBlock, m.blk}

\* The Commit payloads an honest replica has broadcast at the height.
CommitsOf(r) == {m \in BagToSet(network) : m.type = "Commit" /\ m.from = r}

\* C26: once an honest replica has sent a Commit at view v of a height, it
\* never sends a Commit for a different block at a later view of the height.
C26_CommitIsSticky ==
    \A r \in Validators \ faulty :
        \A m, n \in CommitsOf(r) : n.view > m.view => n.blk = m.blk

\* An honest replica that sent a Commit at an earlier view holds M
\* preparations for another block at a later view and has sent no Commit
\* there.
C26_Witness ==
    \E r \in Validators \ faulty :
        /\ view[r] > 0
        /\ phase[r] = "RESPONSE_SENT"
        /\ \E m \in CommitsOf(r) : m.view < view[r] /\ m.blk # accepted[r]
        /\ hasQuorum(Preparations(view[r], accepted[r], FALSE))

\* The validators whose ChangeView for view w has reached a replica.
ChangeViewSenders(w, net) ==
    {v \in Validators : BagIn(Payload("ChangeView", w, v, NoBlock), net)}

\* C27: a replica leaves its view only for a later one, and only after
\* ChangeView payloads for the new view from at least M = N - (N-1)/3
\* distinct validators have been observed (a second copy of a payload adds
\* nothing); on the move its phase state is reset.
C27_ViewChangeNeedsQuorum ==
    [][\A r \in Validators \ faulty :
          view'[r] # view[r] =>
             /\ view'[r] > view[r]
             /\ Cardinality(ChangeViewSenders(view'[r], network')) >= QuorumSize
             /\ phase'[r] \in {"INITIAL", "BACKUP_WAITING"}
             /\ accepted'[r] = NoBlock]_vars

\* An honest replica that had sent its PrepareResponse has moved to the next
\* view on ChangeView payloads of which one had arrived twice.
C27_Witness ==
    \E r \in Validators \ faulty :
        /\ view[r] > 0
        /\ accepted[r] = NoBlock
        /\ \E m \in BagToSet(network) :
              m.type = "PrepareResponse" /\ m.from = r /\ m.view < view[r]
        /\ phase[r] \in {"INITIAL", "BACKUP_WAITING"}
        /\ redelivered

\* The views of the model end with one whose primary is honest: no timer
\* expires in the last view, so the replicas need not leave it.
LastPrimaryHonest == Primary(MaxView) \notin faulty

CallReturns == rpcPc # "idle" /\ rpcPc' = "idle" /\ ~rpcErr'

\* C29: CalculateValidUntilBlock returns the block count the node reports
\* plus the number of validators; a call made with no validator count cached
\* asks the node for the validators and keeps their number, a call made with
\* the count cached issues getblockcount again but no getvalidators request.
C29_ValidUntilBlockUsesCache ==
    [][CallReturns =>
          /\ validUntilBlock' = rpcBlockCount' + rpcCache'.validatorsCount
          /\ getBlockCountCalled' = atCall.blockCounts + 1
          /\ IF atCall.cached.set
             THEN /\ rpcCache' = atCall.cached
                  /\ getValidatorsCalled' = atCall.validators
                  /\ rpcBlockCount' = nodeBlockCount
             ELSE /\ rpcCache' = [set |-> TRUE, validatorsCount |-> nodeValidators]
                  /\ getValidatorsCalled' = atCall.validators + 1]_vars

\* The second call has returned from the cache: two getblockcount requests
\* and one getvalidators request have been served.
C29_Witness ==
    /\ rpcPc = "idle"
    /\ ~rpcErr
    /\ rpcCalls = 2
    /\ atCall.cached.set
    /\ getBlockCountCalled = 2
    /\ getValidatorsCalled = 1
    /\ validUntilBlock = rpcBlockCount + rpcCache.validatorsCount

\* ---------------------------------------------------------------------- C31

\* C31: the invocation stack never holds more than MaxInvocationStackSize
\* contexts; the script that nests fewer than MaxInvocationStackSize CALLs
\* in the loaded context does not fail, and the one that nests more fails at
\* the CALL that finds MaxInvocationStackSize contexts on the stack.
C31_InvocationStackBounded ==
    /\ Len(istack) <= MaxInvocationStackSize
    /\ ctlTest.kind = "call" =>
         /\ ctlState = "HALT" => ctlTest.n <= MaxInvocationStackSize - 1
         /\ ctlState = "FAULT" =>
              /\ ctlTest.n >= MaxInvocationStackSize
              /\ ctlOp = "CALL"
              /\ Len(istack) = MaxInvocationStackSize

\* The script that nests MaxInvocationStackSize CALLs has failed with a full
\* invocation stack.
C31_Witness ==
    /\ ctlTest.kind = "call"
    /\ ctlTest.n = MaxInvocationStackSize
    /\ ctlState = "FAULT"
    /\ Len(istack) = MaxInvocationStackSize

\* The script that nests MaxInvocationStackSize - 1 CALLs has run to HALT.
CallsRunToHalt ==
    /\ ctlTest.kind = "call"
    /\ ctlTest.n = MaxInvocationStackSize - 1
    /\ ctlState = "HALT"

\* ---------------------------------------------------------------------- C34

\* The operand of the instruction the top context is at.
CtlOperand ==
    LET ctx == Top(istack)
    IN  [i \in 1 .. operandLen(CtlNextOp) |-> ctx.script[ctx.ip + 1 + i].n]

\* The next step is an APPCALL with room on the invocation stack.
AtAppCall ==
    /\ ctlState = "NONE"
    /\ istack # <<>>
    /\ CtlNextOp = "APPCALL"
    /\ Len(istack) < MaxInvocationStackSize

\* The hash on top of the evaluation stack, <<>> when there is none.
TopHash ==
    IF ctlEstack # <<>> /\ Top(ctlEstack).k = "Bytes" THEN Top(ctlEstack).bs
    ELSE <<>>

DepthProgram == makeProgram(<<"DEPTH">>)

\* C34: APPCALL with a non-zero operand loads the script the getter has for
\* the operand and leaves the evaluation stack as it is; APPCALL with an
\* all-zero operand fails unless the calling context has the dynamic-invoke
\* flag, and else takes the hash from the evaluation stack and loads the
\* script the getter has for it; a hash the getter does not know is a
\* fault. The callee runs on the caller's evaluation stack: a callee that
\* is DEPTH leaves the number of items the caller had, the hash not counted.
C34_AppCallLoadsScriptOfHash ==
    [][/\ AtAppCall =>
            LET dynamic == CtlOperand = ZeroHash
                hash == IF dynamic THEN TopHash ELSE CtlOperand
                scripts == {g.script : g \in Known(getScript, hash)}
            IN  IF (dynamic /\ ~Top(istack).dyn) \/ scripts = {}
                THEN ctlState' = "FAULT"
                ELSE /\ ctlState' = "NONE"
                     /\ Len(istack') = Len(istack) + 1
                     /\ Top(istack').script \in scripts
                     /\ Top(istack').ip = 0
                     /\ ctlEstack' = IF dynamic THEN Pop(ctlEstack)
                                     ELSE ctlEstack
       /\ (/\ ctlTest.kind = "appcall"
           /\ ctlState' = "HALT"
           /\ \A g \in getScript : g.script = DepthProgram)
          => Top(ctlEstack') =
               IntV(Len(ctlTest.items)
                    - (IF ctlTest.operand = ZeroHash THEN 1 ELSE 0))]_vars

\* The dynamic call of a context with the flag has run DEPTH on the two
\* items left under the hash.
C34_Witness ==
    /\ ctlTest.kind = "appcall"
    /\ ctlTest.operand = ZeroHash
    /\ ctlTest.dyn
    /\ Len(ctlTest.items) = 3
    /\ ctlState = "HALT"
    /\ ctlEstack = <<IntV(42), IntV(42), IntV(2)>>

\* ---------------------------------------------------------------------- C35

\* The short jump a long one corresponds to, a short one itself.
ShortOf(op) ==
    CASE op = "JMPL" -> "JMP"
      [] op = "JMPIFL" -> "JMPIF"
      [] op = "JMPIFNOTL" -> "JMPIFNOT"
      [] op = "JMPEQL" -> "JMPEQ"
      [] op = "JMPNEL" -> "JMPNE"
      [] op = "JMPGTL" -> "JMPGT"
      [] op = "JMPGEL" -> "JMPGE"
      [] op = "JMPLTL" -> "JMPLT"
      [] op = "JMPLEL" -> "JMPLE"
      [] OTHER -> op

\* What the jump test leaves on top of the evaluation stack: 2 when the
\* jump is taken, 1 when it is not, 0 for a fault. below is the item pushed
\* first, top the item pushed last.
JumpExpected(op, items) ==
    LET n == Len(items)
        top == IF n >= 1 THEN items[n] ELSE IntV(0)
        below == IF n >= 2 THEN items[n - 1] ELSE IntV(0)
        taken(b) == IF b THEN 2 ELSE 1
    IN  CASE op = "JMP" -> 2
          [] op = "JMPIF" -> IF n < 1 THEN 0 ELSE taken(ToBool(top))
          [] op = "JMPIFNOT" -> IF n < 1 THEN 0 ELSE taken(~ToBool(top))
          [] n < 2 -> 0
          [] op = "JMPEQ" -> taken(ToInt(below) = ToInt(top))
          [] op = "JMPNE" -> taken(ToInt(below) # ToInt(top))
          [] op = "JMPGT" -> taken(ToInt(below) > ToInt(top))
          [] op = "JMPGE" -> taken(ToInt(below) >= ToInt(top))
          [] op = "JMPLT" -> taken(ToInt(below) < ToInt(top))
          [] OTHER -> taken(ToInt(below) <= ToInt(top))

\* The jump test is over.
JumpTestDone == ctlTest.kind = "jmp" /\ ctlState \in {"HALT", "FAULT"}

\* C35: the program of a long jump ends as that of its short counterpart
\* on every stack: JMP jumps; JMPIF and JMPIFNOT take one item and jump on
\* its truth value or on the negation, and fail on an empty stack; the
\* comparing jumps take two items and jump when the item pushed first
\* stands in the relation to the item pushed last, and fail on fewer than
\* two items. The items the jump took are gone and the others are left.
C35_LongJumpsAsShortJumps ==
    JumpTestDone =>
        LET e == JumpExpected(ShortOf(ctlTest.op), ctlTest.items)
            k == jumpArity(ShortOf(ctlTest.op))
        IN  IF e = 0 THEN ctlState = "FAULT"
            ELSE /\ ctlState = "HALT"
                 /\ ctlEstack =
                      Append(SubSeq(ctlTest.items, 1, Len(ctlTest.items) - k),
                             IntV(e))

\* JMPGTL on 1 pushed first and 0 pushed last has jumped.
C35_Witness ==
    /\ ctlTest.kind = "jmp"
    /\ ctlTest.op = "JMPGTL"
    /\ ctlTest.items = <<IntV(1), IntV(0)>>
    /\ ctlState = "HALT"
    /\ ctlEstack = <<IntV(2)>>

\* ---------------------------------------------------------------------- C32

\* No array or struct has more than MaxArraySize elements and no map more
\* than MaxArraySize entries.
WithinArraySize(h) ==
    \A r \in RefIDs :
        /\ Len(h[r].elems) <= MaxArraySize
        /\ Cardinality(h[r].entries) <= MaxArraySize

\* The item at the given depth of the evaluation stack (1 is the top) is a
\* container of these kinds that holds n elements or entries.
Holds(depth, kinds, n) ==
    /\ Len(itemEstack) >= depth
    /\ IsRefTo(heap, itemEstack[Len(itemEstack) - depth + 1], kinds)
    /\ Len(Contents(heap[itemEstack[Len(itemEstack) - depth + 1].v])) = n

\* The instruction has not failed, or it has failed on the stack-size limit.
SucceededWithinStackSize == itemState' = "NONE" \/ vmSize' > MaxItemStackSize

\* C32: no array, struct or map ever holds more than MaxArraySize elements:
\* NEWARRAY, NEWSTRUCT and PACK with a count above MaxArraySize fail; APPEND
\* to an array or struct of MaxArraySize elements fails and APPEND to one of
\* MaxArraySize - 1 elements succeeds; SETITEM on a map of MaxArraySize
\* entries fails for a new key and succeeds for a key of the map.
C32_ContainersWithinArraySize ==
    /\ WithinArraySize(heap)
    /\ [][/\ WithinArraySize(heap')
          /\ ItemStepped =>
               /\ (/\ itemOp' \in {"NEWARRAY", "NEWSTRUCT", "PACK"}
                   /\ Len(itemEstack) >= 1
                   /\ IsPrimitive(Top(itemEstack))
                   /\ ToInt(Top(itemEstack)) > MaxArraySize)
                  => itemState' = "FAULT"
               /\ itemOp' = "APPEND"
                  /\ Holds(2, {"Array", "Struct"}, MaxArraySize)
                  => itemState' = "FAULT"
               /\ itemOp' = "APPEND"
                  /\ Holds(2, {"Array", "Struct"}, MaxArraySize - 1)
                  => /\ SucceededWithinStackSize
                     /\ itemState' = "NONE" =>
                          Len(heap'[itemEstack[Len(itemEstack) - 1].v].elems)
                            \in {0, MaxArraySize}
               /\ itemOp' = "SETITEM"
                  /\ Holds(3, {"Map"}, MaxArraySize)
                  /\ IsPrimitive(itemEstack[Len(itemEstack) - 1])
                  => IF HasKey(itemEstack[Len(itemEstack) - 2].v,
                               itemEstack[Len(itemEstack) - 1])
                     THEN SucceededWithinStackSize
                     ELSE itemState' = "FAULT"]_vars

\* APPEND has failed on an array that holds MaxArraySize elements.
C32_Witness ==
    /\ itemState = "FAULT"
    /\ itemOp = "APPEND"
    /\ Holds(2, {"Array"}, MaxArraySize)

\* APPEND has made an array of MaxArraySize elements.
AppendedLastElement ==
    /\ itemState = "NONE"
    /\ itemOp = "APPEND"
    /\ \E r \in RefIDs :
          heap[r].t = "Array" /\ Len(heap[r].elems) = MaxArraySize

\* SETITEM has replaced the value of a key in a map of MaxArraySize entries
\* (the only first instruction SETITEM that does not fail); the map, held
\* by the stack alone, is gone.
SetItemInFullMap ==
    /\ itemState = "NONE"
    /\ itemOp = "SETITEM"
    /\ itemSteps = 1
    /\ itemEstack = <<>>

\* SETITEM with a new key has failed on a map of MaxArraySize entries.
SetItemNewKeyFailed ==
    /\ itemState = "FAULT"
    /\ itemOp = "SETITEM"
    /\ Holds(3, {"Map"}, MaxArraySize)

\* PACK with a count above MaxArraySize has failed.
PackTooManyFailed ==
    /\ itemState = "FAULT"
    /\ itemOp = "PACK"
    /\ Len(itemEstack) = MaxArraySize + 2
    /\ Top(itemEstack) = IntV(MaxArraySize + 1)

\* ---------------------------------------------------------------------- C36

\* The step is an EQUAL.
EqualStepped == ItemStepped /\ itemOp' = "EQUAL"

\* The two items EQUAL takes are of these kinds, in either order.
Operands(ka, kb) ==
    LET b == Top(itemEstack)
        a == itemEstack[Len(itemEstack) - 1]
        kind(x) == IF x.k = "Ref" THEN heap[x.v].t ELSE x.k
    IN  \/ kind(a) \in ka /\ kind(b) \in kb
        \/ kind(a) \in kb /\ kind(b) \in ka

\* C36: EQUAL with fewer than two items fails; else it takes two items and
\* leaves a boolean: for two arrays or two maps whether they are the same
\* item (so an array or map equals its own DUP and two arrays or maps made
\* one by one are not equal, both empty included), for two integers
\* whether they are the same number, for an integer and a byte array
\* whether the byte array is the encoding of the integer.
C36_EqualByIdentityOrValue ==
    [][EqualStepped =>
         IF Len(itemEstack) < 2 THEN itemState' = "FAULT"
         ELSE LET b == Top(itemEstack)
                  a == itemEstack[Len(itemEstack) - 1]
                  res == Top(itemEstack')
              IN  /\ itemState' = "NONE"
                  /\ Len(itemEstack') = Len(itemEstack) - 1
                  /\ res \in {BoolV(TRUE), BoolV(FALSE)}
                  /\ Operands({"Array"}, {"Array"}) \/ Operands({"Map"}, {"Map"})
                     => res = BoolV(a.v = b.v)
                  /\ Operands({"Int"}, {"Int"}) => res = BoolV(a.v = b.v)
                  /\ a.k = "Int" /\ b.k = "Bytes"
                     => res = BoolV(b.bs = IntToBytes(a.v))
                  /\ a.k = "Bytes" /\ b.k = "Int"
                     => res = BoolV(a.bs = IntToBytes(b.v))]_vars

\* DUP and EQUAL on an array that the alt stack holds too have left true.
C36_Witness ==
    /\ itemState = "NONE"
    /\ itemOp = "EQUAL"
    /\ itemSteps = 2
    /\ itemEstack = <<BoolV(TRUE)>>
    /\ itemAstack = <<RefV(1)>>
    /\ heap[1].t = "Array"

\* Two arrays made one by one, of the same elements, have been found not
\* equal.
TwoArraysNotEqual ==
    /\ itemState = "NONE"
    /\ itemOp = "EQUAL"
    /\ itemSteps = 4
    /\ itemEstack = <<BoolV(FALSE)>>
    /\ itemAstack = <<RefV(1)>>
    /\ heap[1] = ArrayObj(<<BoolV(FALSE)>>)

\* ---------------------------------------------------------------------- C37

\* The step is a NEWARRAY or NEWSTRUCT on a reference to an array or struct.
ConvertStepped ==
    /\ ItemStepped
    /\ itemOp' \in {"NEWARRAY", "NEWSTRUCT"}
    /\ Len(itemEstack) >= 1
    /\ IsRefTo(heap, Top(itemEstack), {"Array", "Struct"})

\* The step is an APPEND or REVERSEITEMS that has changed a container.
MutateStepped ==
    /\ ItemStepped
    /\ itemState' = "NONE"
    /\ \/ itemOp' = "APPEND" /\ Len(itemEstack) >= 2
       \/ itemOp' = "REVERSEITEMS" /\ Len(itemEstack) >= 1

\* The container the APPEND or REVERSEITEMS acts on.
Mutated ==
    IF itemOp' = "APPEND" THEN itemEstack[Len(itemEstack) - 1].v
    ELSE Top(itemEstack).v

\* C37: NEWARRAY on an array and NEWSTRUCT on a struct leave the reference
\* as it is, the same container; NEWSTRUCT on an array and NEWARRAY on a
\* struct leave a reference to a new container of the other kind with the
\* same elements, and the old one is as it was. APPEND and REVERSEITEMS
\* change the one container their reference points to (seen through every
\* reference to it) and no other that was there before.
C37_SameKindSameContainer ==
    [][/\ ConvertStepped =>
            LET x == Top(itemEstack)
                kind == IF itemOp' = "NEWARRAY" THEN "Array" ELSE "Struct"
            IN  IF heap[x.v].t = kind
                THEN /\ itemState' = "NONE"
                     /\ itemEstack' = itemEstack
                     /\ heap' = heap
                ELSE itemState' = "NONE" =>
                       LET y == Top(itemEstack')
                       IN  /\ y.k = "Ref"
                           /\ y.v # x.v
                           /\ heap[y.v].t = "Free"
                           /\ heap'[y.v].t = kind
                           /\ heap'[y.v].elems = heap[x.v].elems
                           /\ heap'[x.v] \in {heap[x.v], FreeObj}
       /\ MutateStepped =>
            /\ heap'[Mutated] # FreeObj /\ itemOp' = "REVERSEITEMS" =>
                 heap'[Mutated].elems = Reversed(heap[Mutated].elems)
            /\ heap'[Mutated] # FreeObj /\ itemOp' = "APPEND" =>
                 /\ Len(heap'[Mutated].elems) = Len(heap[Mutated].elems) + 1
                 /\ SubSeq(heap'[Mutated].elems, 1, Len(heap[Mutated].elems))
                      = heap[Mutated].elems
            /\ \A q \in RefIDs \ {Mutated} :
                  heap[q] # FreeObj => heap'[q] \in {heap[q], FreeObj}]_vars

\* NEWSTRUCT on an array that the alt stack also holds, then PUSH1 and
\* APPEND: the struct got the element and is gone with its last reference,
\* the array has its one element.
C37_Witness ==
    /\ itemState = "NONE"
    /\ itemOp = "APPEND"
    /\ itemSteps = 3
    /\ itemEstack = <<>>
    /\ itemAstack = <<RefV(1)>>
    /\ heap[1] = ArrayObj(<<BoolV(FALSE)>>)

\* NEWARRAY on that array, then PUSH1 and APPEND: the array has the element.
SameArrayAppended ==
    /\ itemState = "NONE"
    /\ itemOp = "APPEND"
    /\ itemSteps = 3
    /\ itemEstack = <<>>
    /\ itemAstack = <<RefV(1)>>
    /\ heap[1] = ArrayObj(<<BoolV(FALSE), IntV(1)>>)

\* NEWSTRUCT on a struct the stack holds twice, then REVERSEITEMS: the struct
\* left on the stack is reversed.
SameStructReversed ==
    /\ itemState = "NONE"
    /\ itemOp = "REVERSEITEMS"
    /\ itemSteps = 2
    /\ itemEstack = <<RefV(1)>>
    /\ heap[1] = StructObj(<<IntV(2), IntV(1)>>)

\* NEWARRAY on that struct, then REVERSEITEMS: the struct is as it was.
OtherKindReversed ==
    /\ itemState = "NONE"
    /\ itemOp = "REVERSEITEMS"
    /\ itemSteps = 2
    /\ itemEstack = <<RefV(1)>>
    /\ heap[1] = StructObj(<<IntV(1), IntV(2)>>)

\* ---------------------------------------------------------------------- C33

\* The step is Runtime.Serialize on an item of the evaluation stack.
SerializeStepped ==
    /\ itemOp = ""
    /\ itemOp' = "Neo.Runtime.Serialize"
    /\ itemEstack # <<>>

\* The step is Runtime.Deserialize.
DeserializeStepped == serIp = 2 /\ serIp' = 3

\* The item is an array whose elements are primitive items, one of them
\* there twice.
HoldsPrimitiveTwice(h, x) ==
    /\ IsRefTo(h, x, {"Array"})
    /\ \A i \in 1 .. Len(h[x.v].elems) : IsPrimitive(h[x.v].elems[i])
    /\ \E i, j \in 1 .. Len(h[x.v].elems) :
          i # j /\ h[x.v].elems[i] = h[x.v].elems[j]

ItemTypes == {ByteArrayT, BooleanT, IntegerT, ArrayT, StructT, MapT}

\* C33: Runtime.Serialize fails for an item that holds itself, directly or
\* through other items, and for an interop handle; it succeeds and leaves
\* a byte array for an array that holds the same primitive item twice.
\* Runtime.Deserialize fails for data whose first byte is the type of no
\* item.
C33_SerializeRefusesCycles ==
    [][/\ SerializeStepped =>
            LET x == Top(itemEstack)
            IN  /\ Cyclic(heap, x) \/ x = InteropV => itemState' = "FAULT"
                /\ HoldsPrimitiveTwice(heap, x) =>
                     /\ itemState' = "NONE"
                     /\ Len(itemEstack') = Len(itemEstack)
                     /\ Top(itemEstack').k = "Bytes"
                     /\ Top(itemEstack').bs
                          \in SerializeItem(ToItem(heap, x))
       /\ (/\ DeserializeStepped
           /\ Top(serStack).bytes[1] \notin ItemTypes)
          => serFailed' /\ serStack' = serStack]_vars

\* Runtime.Serialize has failed on the array whose second element is the
\* array itself.
C33_Witness ==
    /\ itemState = "FAULT"
    /\ itemOp = "Neo.Runtime.Serialize"
    /\ itemEstack = <<RefV(1)>>
    /\ heap[1] = ArrayObj(<<BoolV(FALSE), RefV(1)>>)

\* Runtime.Serialize has left the data of the array that holds 2 twice.
SerializedSameTwice ==
    /\ itemState = "NONE"
    /\ itemOp = "Neo.Runtime.Serialize"
    /\ itemEstack = <<BytesV(<<ArrayT, 2, IntegerT, 1, 2, IntegerT, 1, 2>>)>>

\* Runtime.Deserialize has failed on the data of 123 with the first byte
\* set to 255.
DeserializedUnknown ==
    /\ serFailed
    /\ serItem = IntItem(123)
    /\ serStack = <<BytesItem(<<255, 1, 123>>)>>

\* Runtime.Serialize has failed on an interop handle.
SerializedInterop ==
    /\ itemState = "FAULT"
    /\ itemOp = "Neo.Runtime.Serialize"
    /\ itemEstack = <<InteropV>>

\* ---------------------------------------------------------------------- C38

\* What processClaimTX leaves of reference k of the list: the claimed bit is
\* set and the owner's unclaimed table has no entry for the output.
ClaimDone(dao, x) ==
    /\ CoinOf(dao, x).claimed
    /\ FindEntry(dao.accounts[CoinOf(dao, x).scriptHash].unclaimed,
                 x.prevHash, x.prevIndex) = 0

\* Reference k of the list is valid: it names a spent, not yet claimed output
\* of the governing token that no earlier reference of the list names.
ValidClaim(cl, k, dao) ==
    /\ ClaimValid(cl[k], dao)
    /\ ~InvalidClaim(cl, k, dao)

\* C38: with strict verification off, every valid reference of a claim list
\* (one that names a spent, not yet claimed output) has its claimed bit set
\* and its unclaimed entry removed by processClaimTX, whether invalid
\* references stand before or after it in the list.
C38_ValidClaimsProcessedAnywhere ==
    (Applying /\ ~VerifyTransactions) =>
        \A cl \in ClaimLists(cache) :
            LET r == processClaimTX(cl, cache, VerifyTransactions)
            IN  \A k \in 1 .. Len(cl) :
                    ValidClaim(cl, k, cache) => ClaimDone(r.dao, cl[k])

\* The valid references that stand before the first invalid one are
\* processed: the loop stops at the first invalid reference.
ValidClaimsProcessedUpToFirstInvalid ==
    (Applying /\ ~VerifyTransactions) =>
        \A cl \in ClaimLists(cache) :
            LET r == processClaimTX(cl, cache, VerifyTransactions)
            IN  \A k \in 1 .. Len(cl) :
                    (/\ ValidClaim(cl, k, cache)
                     /\ \A j \in 1 .. k : ~InvalidClaim(cl, j, cache))
                        => ClaimDone(r.dao, cl[k])

\* A claim list is at hand whose first reference is invalid and whose second
\* one is valid.
ValidAfterInvalidAtHand ==
    /\ Applying /\ ~VerifyTransactions
    /\ \E cl \in ClaimLists(cache) :
          /\ Len(cl) = 2
          /\ InvalidClaim(cl, 1, cache)
          /\ ValidClaim(cl, 2, cache)

\* ---------------------------------------------------------------------- C39

\* The layers processTXInput can be handed while a transaction of the block
\* is processed: the block's cache, and the cache after an earlier input of
\* the same transaction.
InputLayers ==
    {cache} \cup
    {r.dao : r \in {processInputs(<<y>>, height + 1, cache) :
                      y \in {z \in Refs(cache) : InputUnspent(z, cache)}}}

\* The balance lists of an account before and after the spending of output x
\* of asset a: no entry for x is left, every other entry of the list of a is
\* there as often as before, nothing is new, and the lists of the other
\* assets are the same.
OnlySpentEntryRemoved(before, after, x, a) ==
    /\ FindEntry(after.balances[a], x.prevHash, x.prevIndex) = 0
    /\ \A e \in RefsOf(before.balances[a]) :
          (e.tx # x.prevHash \/ e.index # x.prevIndex)
              => Count(after.balances[a], e) = Count(before.balances[a], e)
    /\ RefsOf(after.balances[a]) \subseteq RefsOf(before.balances[a])
    /\ \A b \in Assets \ {a} : after.balances[b] = before.balances[b]

\* C39: processTXInput removes from the owner's balance list of the spent
\* asset the entry of the spent output and no other entry, whatever the
\* length of the list, and leaves the owner's lists of other assets alone.
C39_InputRemovesOnlyItsEntry ==
    Applying =>
        \A dao \in InputLayers : \A x \in Refs(dao) :
            LET r == processTXInput(x, dao.coins[x.prevHash], height + 1,
                                    dao.accounts)
            IN  (dao.coins[x.prevHash].exists /\ r.err = NoErr) =>
                  LET owner == CoinOf(dao, x).scriptHash
                  IN  OnlySpentEntryRemoved(dao.accounts[owner],
                                            r.accounts[owner], x,
                                            CoinOf(dao, x).asset)

\* Account A has spent the first of its two genesis outputs: the entry of
\* the second one was moved and is now the only entry of the list, from
\* which the next input removes it.
C39_Witness ==
    /\ Applying
    /\ CoinOf(cache, Input(GenesisHash, 0)).spent
    /\ InputUnspent(Input(GenesisHash, 1), cache)
    /\ Len(cache.accounts["A"].balances[GoverningTokenID]) = 1
    /\ cache.accounts["A"].balances[GoverningTokenID][1].tx = GenesisHash
    /\ cache.accounts["A"].balances[GoverningTokenID][1].index = 1

\* The only entry of a list was spent: the list is empty.
LastEntrySpent ==
    /\ CoinOf(store, Input(GenesisHash, 0)).spent
    /\ CoinOf(store, Input(GenesisHash, 1)).spent
    /\ store.accounts["A"].balances[GoverningTokenID] = <<>>

\* A list of three entries is at hand.
ThreeEntriesAtHand ==
    /\ Applying
    /\ \E s \in ScriptHashes : \E a \in Assets :
          Len(cache.accounts[s].balances[a]) >= 3

\* ---------------------------------------------------------------------- C40

\* p * 1000000 does not wrap.
Fits(p) == p <= (Uint64 - 1) \div TimestampScale

\* C40: Timestamp() after SetTimestamp(ts) returns the largest multiple of
\* 1000000 that is not above ts, which is ts only when ts is such a
\* multiple; SetTimestamp(Timestamp()) leaves the stored timestamp as it is
\* whenever the stored value times 1000000 fits in the word.
C40_TimestampRoundsDown ==
    [][/\ prOp' = "SetTimestamp;Timestamp" =>
            /\ tsRet' % TimestampScale = 0
            /\ tsRet' <= tsArg
            /\ tsArg < tsRet' + TimestampScale
            /\ (tsRet' = tsArg) <=> (tsArg % TimestampScale = 0)
       /\ (prOp' = "SetTimestamp(Timestamp)" /\ Fits(timestamp)) =>
            timestamp' = timestamp]_vars

\* SetTimestamp was called with a value just above a multiple of the
\* factor, and Timestamp returned the multiple.
C40_Witness ==
    /\ prOp = "SetTimestamp;Timestamp"
    /\ tsArg = TimestampScale + 1
    /\ tsRet = TimestampScale
    /\ timestamp = 1

\* SetTimestamp(Timestamp()) has kept a stored value whose product fits.
KeptStoredTimestamp ==
    /\ prOp = "SetTimestamp(Timestamp)"
    /\ timestamp = 2
    /\ tsArg = 2 * TimestampScale

\* SetTimestamp(Timestamp()) has changed a stored value whose product wraps.
ChangedWrappedTimestamp ==
    /\ prOp = "SetTimestamp(Timestamp)"
    /\ timestamp = 0
    /\ tsArg = 3 * TimestampScale - Uint64

=============================================================================
